---- MODULE Spec2Model ----
(***************************************************************************)
(* A model of TINKER's plan/execute orchestration core:                    *)
(*   - ConfigToolRegistry    (src/src/rehosting/tools/config_tools.py)     *)
(*   - EngineerAgent         (src/src/rehosting/agents/engineer.py)        *)
(*   - FirmwarePlannerAgent  (src/src/rehosting/agents/planner.py)         *)
(*   - rehost_firmware       (src/src/rehosting/rehosting_workflow.py)     *)
(*   - _run_with_realtime_capture (src/src/penguin/operations.py)          *)
(*                                                                         *)
(* Representation.  Python strings are TLA+ strings.  A dict is a tagged   *)
(* node [k |-> "dict", d |-> f] with f a function from keys to nodes, a    *)
(* string value is [k |-> "str", s |-> text].  str.split('.') is the table *)
(* Split on the variable names of the tools, and the operator split on the *)
(* character sequences of SpecDocument.  The LLM, the file system and the  *)
(* child process are the environment: every value they return is drawn     *)
(* with \E from a finite set.                                              *)
(***************************************************************************)
EXTENDS Integers, Sequences, FiniteSets, TLC

VARIABLES
    pc,                    \* position of rehost_firmware / of the function under test
    iteration,             \* loop variable i of rehost_firmware
    discovery_mode,        \* rehost_firmware local
    discovery_variable,    \* rehost_firmware local (None when unset)
    accumulated_actions,   \* rehost_firmware local
    errors,                \* workflow_state["errors"]
    success,               \* workflow_state["success"]
    engine_runs,           \* number of penguin_client.run invocations
    config,                \* ConfigToolRegistry.config (in-memory tree)
    original_config,       \* ConfigToolRegistry.original_config
    config_file,           \* content of <project>/config.yaml
    plan,                  \* state["plan"] of the LangGraph run
    max_options,           \* EngineerAgent.max_options
    sorted_options,        \* execute_plan local
    option_index,          \* number of options of sorted_options already executed
    action_records,        \* EngineerState.action_records
    results,               \* execute_plan local: completed / failed / skipped counters
    resolved,              \* per executed option: what the resolver and the I/O returned
    final_state,           \* what workflow.run returned (or NoState)
    max_retries,           \* FirmwarePlannerAgent.max_retries
    attempt,               \* loop variable of FirmwarePlannerAgent.plan
    last_error,            \* FirmwarePlannerAgent.plan local
    response,              \* FirmwarePlannerAgent.plan local (last raw LLM response)
    llm_calls,             \* number of chat() calls issued by plan()
    plan_outcome,          \* how plan() ended: "running", "returned", "raised"
    round_log,             \* per started round: the discovery state it ran in
    max_iter,              \* int(config["Penguin"]["max_iter"])
    placeholder_successes, \* successful placeholder calls since the start of the
                           \* workflow or the last Discovery -> Normal transition
    planner_state,         \* the State that _planner_node hands to the planner
    context,               \* the sources of the context _build_context returned
    proc,                  \* _run_with_realtime_capture: the child process, its pipe,
                           \* what subprocess.run has read and what was echoed
    prompts                \* the system prompt of each chat() call of plan()

vars == <<pc, iteration, discovery_mode, discovery_variable, accumulated_actions,
          errors, success, engine_runs, config, original_config, config_file,
          plan, max_options, sorted_options, option_index, action_records,
          results, resolved, final_state, max_retries, attempt, last_error,
          response, llm_calls, plan_outcome, round_log, max_iter,
          placeholder_successes, planner_state, context, proc, prompts>>

----------------------------------------------------------------------------
(* Values *)

None == "None"

placeholder_value == "DYNVALDYNVALDYNVAL"

PlaceholderTool == "add_environment_variable_placeholder"

Dict(f) == [k |-> "dict", d |-> f]

Str(s) == [k |-> "str", s |-> s]

NoneNode == [k |-> "none"]

EmptyMap == [x \in {} |-> Str("")]

EmptyDict == Dict(EmptyMap)

IsDict(n) == n.k = "dict"

Put(f, key, v) == [x \in DOMAIN f \cup {key} |-> IF x = key THEN v ELSE f[x]]

Del(f, key) == [x \in DOMAIN f \ {key} |-> f[x]]

\* str.split('.') on the strings of the model: only "net.mac" holds a dot.
Split(path) ==
    IF path = "net.mac" THEN <<"net", "mac">> ELSE <<path>>

\* parts of f"env.{name}"
EnvPath(name) == <<"env">> \o Split(name)

----------------------------------------------------------------------------
(* ConfigToolRegistry: the nested-path helpers.  A helper that raises       *)
(* (TypeError on a non-dict node) returns ok = FALSE and the tree unchanged.*)

RECURSIVE get_nested(_, _)
get_nested(current, parts) ==
    IF parts = <<>> THEN [found |-> TRUE, node |-> current]
    ELSE IF IsDict(current) /\ Head(parts) \in DOMAIN current.d
         THEN get_nested(current.d[Head(parts)], Tail(parts))
         ELSE [found |-> FALSE, node |-> current]

\* _get_nested_value: None when a part is missing
_get_nested_value(cfg, parts) ==
    LET r == get_nested(cfg, parts) IN IF r.found THEN r.node ELSE NoneNode

RECURSIVE set_nested(_, _, _)
set_nested(current, parts, value) ==
    IF ~IsDict(current) THEN [ok |-> FALSE, node |-> current]
    ELSE IF Len(parts) = 1
         THEN [ok |-> TRUE, node |-> Dict(Put(current.d, parts[1], value))]
         ELSE LET child == IF parts[1] \in DOMAIN current.d
                           THEN current.d[parts[1]] ELSE EmptyDict
                  sub == set_nested(child, Tail(parts), value)
              IN IF sub.ok
                 THEN [ok |-> TRUE, node |-> Dict(Put(current.d, parts[1], sub.node))]
                 ELSE [ok |-> FALSE, node |-> current]

_set_nested_value(cfg, parts, value) == set_nested(cfg, parts, value)

RECURSIVE remove_nested(_, _)
remove_nested(current, parts) ==
    IF ~IsDict(current) \/ Head(parts) \notin DOMAIN current.d
    THEN [removed |-> FALSE, node |-> current]
    ELSE IF Len(parts) = 1
         THEN [removed |-> TRUE, node |-> Dict(Del(current.d, parts[1]))]
         ELSE LET sub == remove_nested(current.d[parts[1]], Tail(parts))
              IN [removed |-> sub.removed,
                  node |-> Dict(Put(current.d, parts[1], sub.node))]

_remove_nested_value(cfg, parts) == remove_nested(cfg, parts)

\* _load_config: the file's tree, {} for an empty document
_load_config(file) == file

\* _save_config under the three outcomes of open()/yaml.dump(): the dump
\* succeeds, open() fails and leaves the file alone, or the file was
\* truncated by open(..., 'w') and the dump then failed.
SaveOutcomes == {"ok", "open_failed", "dump_failed"}

_save_config(cfg, file, io) ==
    CASE io = "ok"          -> [saved |-> TRUE,  file |-> cfg]
      [] io = "open_failed" -> [saved |-> FALSE, file |-> file]
      [] OTHER              -> [saved |-> FALSE, file |-> EmptyDict]

\* the result of one tool: new tree, new file content, "success" / "failed"
ToolResult(cfg, file, status) == [config |-> cfg, file |-> file, status |-> status]

\* a tail that reports success whether or not the file was written
SaveAndReport_unchecked(cfg, file, io) ==
    LET Report(s) == ToolResult(cfg, s.file, "success")
    IN Report(_save_config(cfg, file, io))

\* the common tail "if self._save_config(): success else: failed"
SaveAndReport(cfg, file, io) ==
    LET Report(s) == ToolResult(cfg, s.file, IF s.saved THEN "success" ELSE "failed")
    IN Report(_save_config(cfg, file, io))

\* the tail of the three tools that set or remove a value: r is what the
\* helper returned, done tells whether it did its work
SaveIf(done, r, cfg, file, io) ==
    IF ~done THEN ToolResult(cfg, file, "failed") ELSE SaveAndReport(r.node, file, io)

----------------------------------------------------------------------------
(* ConfigToolRegistry: the nine tools.  params is the keyword dict of the   *)
(* call; get_tool is applied only to calls that params_match accepts.       *)

\* filepath.startswith(prefix) for prefix in ["/sys/", "/dev/", "/proc/"],
\* on the paths of the model
UnderSysDevProc == {"/dev/mtd0", "/dev/gpio", "/proc/version", "/sys/class/net"}

\* filepath.startswith("/dev/mtd") on the paths of the model
MtdPaths == {"/dev/mtd0"}

init_programs == <<"/sbin/init", "/bin/init", "/usr/sbin/init", "/usr/bin/init">>

\* top-level section of the tree as a key -> node function ({} when absent);
\* usable is FALSE when the section exists and is not a dict (the lookup
\* "filepath in section" then raises)
Section(cfg, key) ==
    IF key \notin DOMAIN cfg.d THEN [usable |-> TRUE, d |-> EmptyMap]
    ELSE IF IsDict(cfg.d[key]) THEN [usable |-> TRUE, d |-> cfg.d[key].d]
    ELSE [usable |-> FALSE, d |-> EmptyMap]

\* io = "missing": none of init_programs exists on the host; otherwise
\* /sbin/init exists and io is the outcome of every _save_config of the call
change_init_program(cfg, file, params, io) ==
    LET Set(r) == SaveIf(r.ok, r, cfg, file, io)
    IN IF io = "missing" THEN ToolResult(cfg, file, "failed")
       ELSE Set(_set_nested_value(cfg, EnvPath("igloo_init"), Str(init_programs[1])))

add_environment_variable_placeholder(cfg, file, params, io) ==
    LET Set(r) == SaveIf(r.ok, r, cfg, file, io)
    IN IF params["name"] = "igloo_init" THEN ToolResult(cfg, file, "failed")
       ELSE Set(_set_nested_value(cfg, EnvPath(params["name"]), Str(placeholder_value)))

\* a set_environment_variable_value without the test for the reserved name
set_environment_variable_value_unguarded(cfg, file, params, io) ==
    LET Set(r) == SaveIf(r.ok, r, cfg, file, io)
    IN Set(_set_nested_value(cfg, EnvPath(params["name"]), Str(params["value"])))

set_environment_variable_value(cfg, file, params, io) ==
    LET Set(r) == SaveIf(r.ok, r, cfg, file, io)
    IN IF params["name"] = "igloo_init" THEN ToolResult(cfg, file, "failed")
       ELSE Set(_set_nested_value(cfg, EnvPath(params["name"]), Str(params["value"])))

remove_environment_variable(cfg, file, params, io) ==
    LET Removed(r) == SaveIf(r.removed, r, cfg, file, io)
    IN IF params["name"] = "igloo_init" THEN ToolResult(cfg, file, "failed")
       ELSE Removed(_remove_nested_value(cfg, EnvPath(params["name"])))

\* an add_pseudofile that resets an entry it finds before it reports failed
add_pseudofile_overwriting(cfg, file, params, io) ==
    LET With(filepath, sec) ==
            IF filepath \notin UnderSysDevProc THEN ToolResult(cfg, file, "failed")
            ELSE IF ~sec.usable THEN ToolResult(cfg, file, "failed")
            ELSE IF filepath \in DOMAIN sec.d
                 THEN ToolResult(Dict(Put(cfg.d, "pseudofiles",
                                          Dict(Put(sec.d, filepath, EmptyDict)))),
                                 file, "failed")
            ELSE SaveAndReport(
                     Dict(Put(cfg.d, "pseudofiles",
                              Dict(Put(sec.d, filepath,
                                       IF filepath \in MtdPaths /\ params["name"] # ""
                                       THEN Dict([x \in {"name"} |-> Str(params["name"])])
                                       ELSE EmptyDict)))),
                     file, io)
    IN With(params["filepath"], Section(cfg, "pseudofiles"))

add_pseudofile(cfg, file, params, io) ==
    LET With(filepath, sec) ==
            IF filepath \notin UnderSysDevProc THEN ToolResult(cfg, file, "failed")
            ELSE IF ~sec.usable \/ filepath \in DOMAIN sec.d
                 THEN ToolResult(cfg, file, "failed")
            ELSE SaveAndReport(
                     Dict(Put(cfg.d, "pseudofiles",
                              Dict(Put(sec.d, filepath,
                                       IF filepath \in MtdPaths /\ params["name"] # ""
                                       THEN Dict([x \in {"name"} |-> Str(params["name"])])
                                       ELSE EmptyDict)))),
                     file, io)
    IN With(params["filepath"], Section(cfg, "pseudofiles"))

remove_pseudofile(cfg, file, params, io) ==
    LET With(filepath, sec) ==
            IF ~sec.usable \/ filepath \notin DOMAIN sec.d
            THEN ToolResult(cfg, file, "failed")
            ELSE SaveAndReport(
                     Dict(Put(cfg.d, "pseudofiles", Dict(Del(sec.d, filepath)))), file, io)
    IN With(params["filepath"], Section(cfg, "pseudofiles"))

set_file_read_behavior(cfg, file, params, io) ==
    LET Entry(e1) == IF params["model"] = "const_buf"
                     THEN Put(e1, "read_value", Str(params["value"])) ELSE e1
        With(filepath, sec) ==
            IF params["model"] \notin {"return_zero", "const_buf"}
            THEN ToolResult(cfg, file, "failed")
            ELSE IF ~sec.usable \/ filepath \notin DOMAIN sec.d
                 THEN ToolResult(cfg, file, "failed")
            ELSE IF ~IsDict(sec.d[filepath]) THEN ToolResult(cfg, file, "failed")
            ELSE SaveAndReport(
                     Dict(Put(cfg.d, "pseudofiles",
                              Dict(Put(sec.d, filepath,
                                       Dict(Entry(Put(sec.d[filepath].d, "read_model",
                                                      Str(params["model"])))))))),
                     file, io)
    IN With(params["filepath"], Section(cfg, "pseudofiles"))

\* io = "missing": no results directory / no console.log
grep_strace_output(cfg, file, params, io) ==
    ToolResult(cfg, file, IF io = "ok" THEN "success" ELSE "failed")

\* lines 504-534.  io # "ok": the script file cannot be written.  The file
\* written is project_path / script_path with no check of script_path:
\* "config.yaml" names the config file, whose text becomes
\* "#!/bin/sh\nexit 0\n", the YAML document "exit 0"
replace_script_exit0(cfg, file, params, io) ==
    IF io # "ok" THEN ToolResult(cfg, file, "failed")
    ELSE ToolResult(cfg,
                    IF params["script_path"] = "config.yaml" THEN Str("exit 0")
                    ELSE file,
                    "success")

list_tools ==
    {"change_init_program", PlaceholderTool, "set_environment_variable_value",
     "remove_environment_variable", "add_pseudofile", "remove_pseudofile",
     "set_file_read_behavior", "grep_strace_output", "replace_script_exit0"}

\* the parameters of each tool's Python signature (none has a default)
Signature(tool) ==
    CASE tool = "change_init_program"            -> {"error"}
      [] tool = PlaceholderTool                  -> {"name", "reason"}
      [] tool = "set_environment_variable_value" -> {"name", "value", "reason"}
      [] tool = "remove_environment_variable"    -> {"name", "reason"}
      [] tool = "add_pseudofile"                 -> {"filepath", "name", "reason"}
      [] tool = "remove_pseudofile"              -> {"filepath", "reason"}
      [] tool = "set_file_read_behavior"         -> {"filepath", "model", "value", "reason"}
      [] tool = "grep_strace_output"             -> {"grep_command", "reason"}
      [] OTHER                                   -> {"script_path", "reason"}

\* get_tool(tool_name)(**params)
get_tool(tool, cfg, file, params, io) ==
    CASE tool = "change_init_program"            -> change_init_program(cfg, file, params, io)
      [] tool = PlaceholderTool                  -> add_environment_variable_placeholder(cfg, file, params, io)
      [] tool = "set_environment_variable_value" -> set_environment_variable_value(cfg, file, params, io)
      [] tool = "remove_environment_variable"    -> remove_environment_variable(cfg, file, params, io)
      [] tool = "add_pseudofile"                 -> add_pseudofile(cfg, file, params, io)
      [] tool = "remove_pseudofile"              -> remove_pseudofile(cfg, file, params, io)
      [] tool = "set_file_read_behavior"         -> set_file_read_behavior(cfg, file, params, io)
      [] tool = "grep_strace_output"             -> grep_strace_output(cfg, file, params, io)
      [] OTHER                                   -> replace_script_exit0(cfg, file, params, io)

----------------------------------------------------------------------------
(* EngineerAgent.  A tool call of the resolver's JSON is                    *)
(*   [tool, params, form]  with form = "ok"              {"tool":..,"params":{..}} *)
(*                                   "params_not_dict"   "params" is no JSON object *)
(*                                   "not_dict"          the entry is no JSON object*)
(*                                   "missing_fields"    "tool" or "params" missing *)

EngineerMaxRetries == 2

\* an attempt that accepts a skip without a reason
resolver_attempt_skip_without_reason(r) ==
    IF r.kind # "object" THEN [accepted |-> FALSE]
    ELSE IF r.action \notin {"execute", "skip"} THEN [accepted |-> FALSE]
    ELSE IF r.action = "skip"
         THEN [accepted |-> TRUE,
               value |-> [action |-> "skip", skip_reason |-> r.skip_reason,
                          tool_calls |-> <<>>]]
    ELSE IF r.tool_calls = <<>> THEN [accepted |-> FALSE]
    ELSE IF \E i \in 1..Len(r.tool_calls) :
                r.tool_calls[i].form \in {"not_dict", "missing_fields"}
         THEN [accepted |-> FALSE]
    ELSE [accepted |-> TRUE,
          value |-> [action |-> "execute", skip_reason |-> "",
                     tool_calls |-> r.tool_calls]]

\* one attempt of _call_llm_for_implementation on the LLM response r:
\*   r.kind = "llm_error"     chat() raised
\*            "invalid_json"  json.loads raised JSONDecodeError
\*            "not_object"    valid JSON that is no object (result.get raises)
\*            "object"        with r.action, r.skip_reason, r.tool_calls as read
\*                            by result.get(key, default)
\* accepted = FALSE is a failed attempt (continue / caught exception).
resolver_attempt(r) ==
    IF r.kind # "object" THEN [accepted |-> FALSE]
    ELSE IF r.action \notin {"execute", "skip"} THEN [accepted |-> FALSE]
    ELSE IF r.action = "skip"
         THEN IF r.skip_reason = "" THEN [accepted |-> FALSE]
              ELSE [accepted |-> TRUE,
                    value |-> [action |-> "skip", skip_reason |-> r.skip_reason,
                               tool_calls |-> <<>>]]
    ELSE IF r.tool_calls = <<>> THEN [accepted |-> FALSE]
    ELSE IF \E i \in 1..Len(r.tool_calls) :
                r.tool_calls[i].form \in {"not_dict", "missing_fields"}
         THEN [accepted |-> FALSE]
    ELSE [accepted |-> TRUE,
          value |-> [action |-> "execute", skip_reason |-> "",
                     tool_calls |-> r.tool_calls]]

\* a loop that gives up after its first attempt
RECURSIVE resolver_loop(_, _, _)
resolver_loop_single_attempt(script, a, retries) ==
    IF a > 1
    THEN [action |-> "execute", skip_reason |-> "", tool_calls |-> <<>>,
          calls |-> a - 1]
    ELSE LET Attempt(r) == IF r.accepted
                           THEN [action |-> r.value.action,
                                 skip_reason |-> r.value.skip_reason,
                                 tool_calls |-> r.value.tool_calls, calls |-> a]
                           ELSE resolver_loop(script, a + 1, retries)
         IN Attempt(resolver_attempt(script[a]))

\* _call_llm_for_implementation, lines 500-669: script[a] is the LLM's
\* response to attempt a of `for attempt in range(self.max_retries)`; calls is
\* the number of chat() calls made (one per pass of the loop)
resolver_loop(script, a, retries) ==
    IF a > retries
    THEN [action |-> "execute", skip_reason |-> "", tool_calls |-> <<>>,
          calls |-> a - 1]
    ELSE LET Attempt(r) == IF r.accepted
                           THEN [action |-> r.value.action,
                                 skip_reason |-> r.value.skip_reason,
                                 tool_calls |-> r.value.tool_calls, calls |-> a]
                           ELSE resolver_loop(script, a + 1, retries)
         IN Attempt(resolver_attempt(script[a]))

_call_llm_for_implementation(script, retries) == resolver_loop(script, 1, retries)

\* lines 398-403 of _implement_option: the scan of self.state.action_records
\* appends a message for every earlier placeholder record.  Its `continue`
\* continues the scan (the inner for), so the scan never skips the tool call:
\* control always reaches the check of placeholder_tool_used.
skipped_by_history_scan(records) == FALSE

\* tool_func(**params) raises TypeError unless params is a dict whose keys are
\* exactly the parameters of the signature
params_match(call) ==
    call.form = "ok" /\ DOMAIN call.params = Signature(call.tool)

\* a loop that leaves the option at the first blocked call
RECURSIVE run_tool_calls_stop_at_block(_, _, _, _, _, _, _, _)
run_tool_calls_stop_at_block(tool_calls, ios, k, records, cfg, file, successful_calls, placeholder_tool_used) ==
    LET call == tool_calls[k]
        Rest(r, used) ==
            LET Prepend(rest) == [rest EXCEPT !.statuses = <<r.status>> \o @]
            IN Prepend(run_tool_calls_stop_at_block(
                           tool_calls, ios, k + 1, records, r.config, r.file,
                           IF r.status = "success" THEN successful_calls + 1
                           ELSE successful_calls,
                           used))
        Guarded(blocked) ==
            IF blocked
            THEN [config |-> cfg, file |-> file, successful_calls |-> successful_calls,
                  statuses |-> <<"blocked">>]
            ELSE Rest(IF call.tool \notin list_tools
                      THEN ToolResult(cfg, file, "unknown_tool")
                      ELSE IF ~params_match(call) THEN ToolResult(cfg, file, "error")
                      ELSE get_tool(call.tool, cfg, file, call.params, ios[k]),
                      placeholder_tool_used \/ call.tool = PlaceholderTool)
    IN IF k > Len(tool_calls)
       THEN [config |-> cfg, file |-> file, successful_calls |-> successful_calls,
             statuses |-> <<>>]
       ELSE Guarded(call.tool = PlaceholderTool /\ placeholder_tool_used)

\* lines 391-446: the loop over tool_calls from call k on.  statuses lists
\* what became of each call: "blocked", "unknown_tool", "error" (the call
\* raised), or the status the tool returned.
RECURSIVE run_tool_calls(_, _, _, _, _, _, _, _)
run_tool_calls(tool_calls, ios, k, records, cfg, file, successful_calls, placeholder_tool_used) ==
    LET call == tool_calls[k]
        Rest(r, used) ==
            LET Prepend(rest) == [rest EXCEPT !.statuses = <<r.status>> \o @]
            IN Prepend(run_tool_calls(tool_calls, ios, k + 1, records, r.config, r.file,
                                      IF r.status = "success" THEN successful_calls + 1
                                      ELSE successful_calls,
                                      used))
        Guarded(blocked) ==
            Rest(IF blocked THEN ToolResult(cfg, file, "blocked")
                 ELSE IF call.tool \notin list_tools
                      THEN ToolResult(cfg, file, "unknown_tool")
                 ELSE IF ~params_match(call) THEN ToolResult(cfg, file, "error")
                 ELSE get_tool(call.tool, cfg, file, call.params, ios[k]),
                 placeholder_tool_used \/ (call.tool = PlaceholderTool /\ ~blocked))
    IN IF k > Len(tool_calls)
       THEN [config |-> cfg, file |-> file, successful_calls |-> successful_calls,
             statuses |-> <<>>]
       ELSE Guarded(call.tool = PlaceholderTool
                    /\ (skipped_by_history_scan(records) \/ placeholder_tool_used))

\* an aggregation that reports success as soon as one call succeeded
_implement_option_lenient(llm_response, ios, records, cfg, file) ==
    LET tool_calls == llm_response.tool_calls
        Done(r) ==
            [config |-> r.config, file |-> r.file,
             status |-> IF r.successful_calls > 0 THEN "success" ELSE "failed",
             executed_tools |-> tool_calls, statuses |-> r.statuses]
    IN IF llm_response.action = "skip"
       THEN [config |-> cfg, file |-> file, status |-> "skipped", executed_tools |-> <<>>,
             statuses |-> <<>>]
       ELSE IF tool_calls = <<>>
       THEN [config |-> cfg, file |-> file, status |-> "failed", executed_tools |-> <<>>,
             statuses |-> <<>>]
       ELSE Done(run_tool_calls(tool_calls, ios, 1, records, cfg, file, 0, FALSE))

\* _implement_option, given what the resolver returned (llm_response) and the
\* outcome of the I/O of each tool call (ios)
_implement_option(llm_response, ios, records, cfg, file) ==
    LET tool_calls == llm_response.tool_calls
        Done(r) ==
            [config |-> r.config, file |-> r.file,
             status |-> IF r.successful_calls = Len(tool_calls) THEN "success"
                        ELSE IF r.successful_calls > 0 THEN "partial"
                        ELSE "failed",
             executed_tools |-> tool_calls, statuses |-> r.statuses]
    IN IF llm_response.action = "skip"
       THEN [config |-> cfg, file |-> file, status |-> "skipped", executed_tools |-> <<>>,
             statuses |-> <<>>]
       ELSE IF tool_calls = <<>>
       THEN [config |-> cfg, file |-> file, status |-> "failed", executed_tools |-> <<>>,
             statuses |-> <<>>]
       ELSE Done(run_tool_calls(tool_calls, ios, 1, records, cfg, file, 0, FALSE))

priority_order(p) ==
    CASE p = "critical" -> 0
      [] p = "high"     -> 1
      [] p = "medium"   -> 2
      [] p = "low"      -> 3
      [] OTHER          -> 999

\* an insertion that puts an option before the options of its own priority
RECURSIVE insert_sorted_unstable(_, _)
insert_sorted_unstable(sorted, opt) ==
    IF sorted = <<>> THEN <<opt>>
    ELSE IF priority_order(Head(sorted).priority) < priority_order(opt.priority)
         THEN <<Head(sorted)>> \o insert_sorted_unstable(Tail(sorted), opt)
         ELSE <<opt>> \o sorted

\* sorted(plan.options, key=priority_order): Python's sort is stable
RECURSIVE insert_sorted(_, _)
insert_sorted(sorted, opt) ==
    IF sorted = <<>> THEN <<opt>>
    ELSE IF priority_order(Head(sorted).priority) <= priority_order(opt.priority)
         THEN <<Head(sorted)>> \o insert_sorted(Tail(sorted), opt)
         ELSE <<opt>> \o sorted

RECURSIVE sort_options(_)
sort_options(options) ==
    IF options = <<>> THEN <<>>
    ELSE insert_sorted(sort_options(SubSeq(options, 1, Len(options) - 1)),
                       options[Len(options)])

\* no cap at all
limit_options_uncapped(sorted, cap) == sorted

\* lines 205-210: the cap on the number of options
limit_options(sorted, cap) ==
    IF cap > 0 /\ Len(sorted) > cap THEN SubSeq(sorted, 1, cap) ELSE sorted

\* lines 267-281: the ActionRecord of an executed option; ok = FALSE when the
\* pydantic model rejects input (the first call's params is no dict)
ActionRecord(option, res) ==
    IF res.executed_tools = <<>>
    THEN [ok |-> TRUE,
          record |-> [step_id |-> option.option_id, tool |-> "unknown",
                      input |-> EmptyMap, status |-> res.status]]
    ELSE IF res.executed_tools[1].form # "ok"
    THEN [ok |-> FALSE]
    ELSE [ok |-> TRUE,
          record |-> [step_id |-> option.option_id,
                      tool |-> res.executed_tools[1].tool,
                      input |-> res.executed_tools[1].params,
                      status |-> res.status]]

\* counters that take a partial option for a completed one
count_partial_as_completed(res, status) ==
    CASE status \in {"success", "partial"} -> [res EXCEPT !.completed = @ + 1]
      [] status = "skipped" -> [res EXCEPT !.skipped = @ + 1]
      [] OTHER              -> [res EXCEPT !.failed = @ + 1]

\* lines 286-298: the counters
count(res, status) ==
    CASE status = "success" -> [res EXCEPT !.completed = @ + 1]
      [] status = "skipped" -> [res EXCEPT !.skipped = @ + 1]
      [] OTHER              -> [res EXCEPT !.failed = @ + 1]

NoResults == [completed |-> 0, failed |-> 0, skipped |-> 0]

----------------------------------------------------------------------------
(* FirmwarePlannerAgent.  An LLM response is a sequence of tokens: Fence    *)
(* (three backticks), Tag (the word json), NL (a line break), "prose", and  *)
(* the texts of JSON documents, which Documents decodes.  Python's 0-based  *)
(* positions count tokens.                                                  *)

Fence == "FENCE"

Tag == "json"

NL == "NL"

Priorities == {"critical", "high", "medium", "low"}

option_required == {"option_id", "description", "problem", "solution", "priority"}

\* a well-formed option object of a plan document
Opt(id, priority, solution) ==
    [form |-> "dict", missing |-> {}, option_id |-> id, priority |-> priority,
     solution |-> solution, problem |-> "p"]

\* a plan document: id is "absent", "empty", "str" or "number"; objectives is
\* "absent", "list_of_str" or "str"; options is [tag |-> "absent"],
\* [tag |-> "object"] or [tag |-> "list", items |-> ...]
PlanDoc(id, objectives, items) ==
    [type |-> "object", id |-> id, objectives |-> objectives,
     options |-> [tag |-> "list", items |-> items]]

\* json.loads of each document text of the model
Documents ==
    [t \in {"null", "number", "array", "string", "plan", "plan_no_id", "plan_id_empty",
            "plan_id_number", "no_objectives", "no_options", "options_object",
            "option_str", "option_no_solution", "priority_urgent",
            "objectives_str", "plan0", "plan2", "plan3", "plan4", "plan_apply"} |->
        CASE t = "null"   -> [type |-> "null"]
          [] t = "number"     -> [type |-> "number"]
          [] t = "array"     -> [type |-> "array"]
          [] t = "string" -> [type |-> "string"]
          [] t = "plan" -> PlanDoc("str", "list_of_str", <<Opt("1", "high", "s")>>)
          [] t = "plan_no_id" -> PlanDoc("absent", "list_of_str", <<Opt("1", "medium", "s")>>)
          [] t = "plan_id_empty" -> PlanDoc("empty", "list_of_str", <<Opt("1", "low", "s")>>)
          [] t = "plan_id_number"  -> PlanDoc("number", "list_of_str", <<Opt("1", "high", "s")>>)
          [] t = "no_objectives" -> PlanDoc("str", "absent", <<Opt("1", "high", "s")>>)
          [] t = "no_options" ->
                [type |-> "object", id |-> "str", objectives |-> "list_of_str",
                 options |-> [tag |-> "absent"]]
          [] t = "options_object" ->
                [type |-> "object", id |-> "str", objectives |-> "list_of_str",
                 options |-> [tag |-> "object"]]
          [] t = "option_str" ->
                PlanDoc("str", "list_of_str",
                        <<Opt("1", "high", "s"), [Opt("2", "high", "s") EXCEPT !.form = "str"]>>)
          [] t = "option_no_solution" ->
                PlanDoc("str", "list_of_str",
                        <<[Opt("1", "high", "s") EXCEPT !.missing = {"solution"}]>>)
          [] t = "priority_urgent" ->
                PlanDoc("str", "list_of_str", <<Opt("1", "urgent", "s")>>)
          [] t = "objectives_str" -> PlanDoc("str", "str", <<Opt("1", "high", "s")>>)
          [] t = "plan_apply" ->
                PlanDoc("str", "list_of_str", <<Opt("1", "high", "set_value env.sxid")>>)
          [] t = "plan0" -> PlanDoc("str", "list_of_str", <<>>)
          [] t = "plan2" ->
                PlanDoc("str", "list_of_str", <<Opt("1", "low", "s"), Opt("2", "critical", "s")>>)
          [] t = "plan3" ->
                PlanDoc("str", "list_of_str",
                        <<Opt("1", "medium", "s"), Opt("2", "high", "s"), Opt("3", "medium", "s")>>)
          [] OTHER ->
                PlanDoc("absent", "list_of_str",
                        <<Opt("1", "low", "s"), Opt("2", "critical", "s"),
                          Opt("3", "medium", "s"), Opt("4", "high", "s")>>)]

\* str.strip()
RECURSIVE strip(_)
strip(text) ==
    IF text = <<>> THEN text
    ELSE IF Head(text) = NL THEN strip(Tail(text))
    ELSE IF text[Len(text)] = NL THEN strip(SubSeq(text, 1, Len(text) - 1))
    ELSE text

\* json.loads: leading and trailing whitespace is skipped; anything but one
\* complete document raises JSONDecodeError (ok = FALSE)
json_loads(text) ==
    LET Decode(t) == IF Len(t) = 1 /\ t[1] \in DOMAIN Documents
                     THEN [ok |-> TRUE, value |-> Documents[t[1]]]
                     ELSE [ok |-> FALSE]
    IN Decode(strip(text))

\* str.find(sub, start): the first position >= start, -1 when there is none
FirstOr(positions) ==
    IF positions = {} THEN -1
    ELSE CHOOSE p \in positions : \A q \in positions : p <= q

find_fence(text, start) ==
    FirstOr({p \in start..(Len(text) - 1) : text[p + 1] = Fence})

find_fence_json(text) ==
    FirstOr({p \in 0..(Len(text) - 2) : text[p + 1] = Fence /\ text[p + 2] = Tag})

find_newline(text, start) ==
    FirstOr({p \in start..(Len(text) - 1) : text[p + 1] = NL})

\* text[a:b] for a >= 0.  b = -1 stops one character before the end: a final
\* line break is dropped, any other final token is cut short ("cut").
slice(text, a, b) ==
    IF b >= 0 THEN SubSeq(text, a + 1, b)
    ELSE IF a >= Len(text) THEN <<>>
    ELSE IF text[Len(text)] = NL THEN SubSeq(text, a + 1, Len(text) - 1)
    ELSE SubSeq(text, a + 1, Len(text) - 1) \o <<"cut">>

\* lines 204-210: the text between the line break after the first fence
\* (the first tagged fence when there is one) and the next fence
fenced_block(text) ==
    LET From(json_start) == slice(text, json_start, find_fence(text, json_start))
        After(fence) == From(find_newline(text, fence) + 1)
        Choose(tagged) == After(IF tagged = -1 THEN find_fence(text, 0) ELSE tagged)
    IN Choose(find_fence_json(text))

\* lines 197-217 of _parse_plan: direct parse, then the fenced block
extract_json(text) ==
    LET Or(direct) ==
            IF direct.ok THEN direct
            ELSE IF find_fence(text, 0) = -1 THEN [ok |-> FALSE]
            ELSE json_loads(strip(fenced_block(text)))
    IN Or(json_loads(text))

Plan(id, objectives, options) == [id |-> id, objectives |-> objectives, options |-> options]

\* state["plan"] before the planner ran
NoPlan == Plan(None, None, <<>>)

\* FirmwareConfigPlan(**plan_data): id: str, objectives: List[str],
\* options: List[Dict[str, Any]]; TRUE when pydantic accepts the data
plan_schema(plan_data) ==
    /\ plan_data.id # "number"
    /\ plan_data.objectives = "list_of_str"
    /\ plan_data.options.tag = "list"
    /\ \A i \in 1..Len(plan_data.options.items) : plan_data.options.items[i].form = "dict"

\* the option loop without the check of lines 241-244
RECURSIVE validate_options_any_priority(_, _)
validate_options_any_priority(items, i) ==
    IF i > Len(items) THEN "ok"
    ELSE IF items[i].form # "dict" THEN "ValueError: option must be a dictionary"
    ELSE IF items[i].missing \cap option_required # {}
         THEN "KeyError: option missing required fields"
    ELSE validate_options_any_priority(items, i + 1)

\* lines 233-244: the first option that fails validation decides the error
RECURSIVE validate_options(_, _)
validate_options(items, i) ==
    IF i > Len(items) THEN "ok"
    ELSE IF items[i].form # "dict" THEN "ValueError: option must be a dictionary"
    ELSE IF items[i].missing \cap option_required # {}
         THEN "KeyError: option missing required fields"
    ELSE IF items[i].priority \notin Priorities THEN "ValueError: invalid priority"
    ELSE validate_options(items, i + 1)

\* lines 219-251 of _parse_plan on the decoded document plan_data
validate_plan(plan_data) ==
    LET Caught(e) == [kind |-> "caught", error |-> e]
        Options(v) ==
            IF v # "ok" THEN Caught(v)
            ELSE IF ~plan_schema(plan_data)
            THEN Caught("ValueError: failed to instantiate plan schema")
            ELSE [kind |-> "plan",
                  plan |-> Plan(IF plan_data.id \in {"absent", "empty"}
                                THEN "fw_plan_uuid" ELSE "given",
                                plan_data.objectives,
                                plan_data.options.items)]
    IN IF plan_data.type \in {"null", "number"}
       THEN [kind |-> "raised", error |-> "TypeError"]
       ELSE IF plan_data.type \in {"array", "string"}
            THEN Caught("KeyError: missing required fields")
       ELSE IF plan_data.objectives = "absent" \/ plan_data.options.tag = "absent"
            THEN Caught("KeyError: missing required fields")
       ELSE IF plan_data.options.tag # "list"
            THEN Caught("ValueError: options must be a list")
       ELSE Options(validate_options(plan_data.options.items, 1))

\* _parse_plan: [kind |-> "plan", plan |-> ...], or the exception it raises:
\* [kind |-> "caught", error |-> ...] for JSONDecodeError, ValueError and
\* KeyError, which plan() handles, [kind |-> "raised", ...] for any other
_parse_plan(text) ==
    LET Decoded(parsed) ==
            IF ~parsed.ok THEN [kind |-> "caught", error |-> "JSONDecodeError"]
            ELSE validate_plan(parsed.value)
    IN Decoded(extract_json(text))

\* _create_fallback_plan(error, response): response is not used
_create_fallback_plan(error, raw) ==
    Plan("fw_plan_uuid", "list_of_str",
         <<[form |-> "dict", missing |-> {}, option_id |-> "1", priority |-> "critical",
            solution |-> "Manual review and intervention required",
            problem |-> error,
            description |-> "Failed to parse LLM response",
            impact |-> "requires_manual_intervention"]>>)

\* the system prompt _call_llm sends (lines 439-461)
system_prompt(is_retry, state) ==
    IF is_retry THEN <<"RETRY_SYSTEM_PROMPT">>
    ELSE IF state.discovery_mode
         THEN <<"DISCOVERY_MODE_PROMPT",
                IF state.discovery_variable \in {None, ""} THEN "unknown"
                ELSE state.discovery_variable>>
         ELSE <<"SYSTEM_PROMPT">>

\* one pass of the loop of plan() (lines 151-179) on the LLM's reply:
\* reply.raised is TRUE when chat() raised, else reply.content is the text;
\* error is last_error before the pass, the result's error is last_error after.
\*   "return"   the parsed plan, or the fallback plan on the last attempt
\*   "continue" next attempt with last_error
\*   "raise"    an exception leaves plan()
plan_attempt(reply, a, retries, error) ==
    LET Parsed(r) ==
            CASE r.kind = "plan"   -> [kind |-> "return", plan |-> r.plan, error |-> error]
              [] r.kind = "raised" -> [kind |-> "raise", plan |-> NoPlan, error |-> error]
              [] OTHER ->
                   IF a = retries - 1
                   THEN [kind |-> "return",
                         plan |-> _create_fallback_plan(r.error, reply.content),
                         error |-> r.error]
                   ELSE [kind |-> "continue", plan |-> NoPlan, error |-> r.error]
    IN IF reply.raised THEN [kind |-> "raise", plan |-> NoPlan, error |-> error]
       ELSE Parsed(_parse_plan(reply.content))

\* ConfigToolRegistry.__init__: config and original_config for a file
registry_init(file) ==
    [config |-> _load_config(file),
     original_config |-> IF _load_config(file) # EmptyDict THEN _load_config(file)
                         ELSE NoneNode]

----------------------------------------------------------------------------
(* Initial values shared by the specifications *)

NoState == [returned |-> FALSE]

PlannerMaxRetries == 3

DefaultMaxOptions == 3

\* no State handed to the planner yet
NoPlannerState == [discovery_mode |-> FALSE]

\* no context built yet
NoContext == {"not built"}

\* no command was run yet
NoProc ==
    [parent |-> "idle", child |-> "none", todo |-> <<>>, pipe |-> <<>>,
     stdout |-> <<>>, lines |-> <<>>]

InitCommon ==
    /\ iteration = 0
    /\ discovery_mode = FALSE
    /\ discovery_variable = None
    /\ accumulated_actions = <<>>
    /\ errors = <<>>
    /\ success = FALSE
    /\ engine_runs = 0
    /\ sorted_options = <<>>
    /\ option_index = 0
    /\ action_records = <<>>
    /\ results = NoResults
    /\ resolved = <<>>
    /\ final_state = NoState
    /\ attempt = 0
    /\ last_error = None
    /\ context = NoContext
    /\ proc = NoProc
    /\ prompts = <<>>
    /\ response = <<>>
    /\ llm_calls = 0
    /\ round_log = <<>>
    /\ placeholder_successes = 0

----------------------------------------------------------------------------
(* SpecPlan: FirmwarePlannerAgent.plan() alone, one action per pass of its  *)
(* retry loop, for every max_retries up to MaxRetries and every reply of    *)
(* PlanReplies.                                                             *)

MaxRetries == 3

\* the documents the replies of SpecPlan are built from
ReplyDocs ==
    {"null", "number", "array", "string", "plan", "plan_no_id", "plan_id_empty",
     "plan_id_number", "no_objectives", "no_options", "options_object", "option_str",
     "option_no_solution", "priority_urgent", "objectives_str", "plan0", "plan2"}

FencedDocs == {"plan", "plan_no_id", "null", "no_options"}

PlanTexts ==
    {<<>>, <<"cut">>, <<"prose">>}
    \cup {<<d>> : d \in ReplyDocs}
    \cup {<<"prose", d, "prose">> : d \in FencedDocs}
    \cup {<<Fence, Tag, NL, d, NL, Fence>> : d \in FencedDocs}
    \cup {<<Fence, NL, d, NL, Fence>> : d \in FencedDocs}
    \cup {<<"prose", NL, Fence, Tag, NL, d, NL, Fence, NL, "prose">> : d \in FencedDocs}
    \cup {<<Fence, Tag, d, Fence>> : d \in FencedDocs}
    \cup {<<Fence, Tag, NL, d>> : d \in FencedDocs}
    \cup {<<Fence, Tag, NL, "cut", NL, Fence>>}

LLMRaised == [raised |-> TRUE, content |-> <<>>]

PlanReplies == {LLMRaised} \cup {[raised |-> FALSE, content |-> c] : c \in PlanTexts}

InitPlan ==
    /\ InitCommon
    /\ planner_state = NoPlannerState
    /\ pc = "plan"
    /\ plan_outcome = "running"
    /\ max_iter = 0
    /\ max_retries \in 0..MaxRetries
    /\ max_options = DefaultMaxOptions
    /\ plan = NoPlan
    /\ config_file = EmptyDict
    /\ config = registry_init(config_file).config
    /\ original_config = registry_init(config_file).original_config

\* one pass of "for attempt in range(self.max_retries)"
PlanAttempt(Replies) ==
    /\ pc = "plan"
    /\ plan_outcome = "running"
    /\ attempt < max_retries
    /\ \E reply \in Replies :
          \E r \in {plan_attempt(reply, attempt, max_retries, last_error)} :
             /\ llm_calls' = llm_calls + 1
             /\ prompts' = Append(prompts,
                                  system_prompt(attempt > 0,
                                                [discovery_mode |-> discovery_mode,
                                                 discovery_variable |-> discovery_variable]))
             /\ response' = IF reply.raised THEN response ELSE reply.content
             /\ last_error' = r.error
             /\ plan' = IF r.kind = "return" THEN r.plan ELSE plan
             /\ attempt' = IF r.kind = "continue" THEN attempt + 1 ELSE attempt
             /\ plan_outcome' = CASE r.kind = "return" -> "returned"
                                  [] r.kind = "continue" -> plan_outcome
                                  [] OTHER -> "raised"
    /\ UNCHANGED <<pc, iteration, discovery_mode, discovery_variable,
                   accumulated_actions, errors, success, engine_runs, config,
                   original_config, config_file, max_options, sorted_options,
                   option_index, action_records, results, resolved,
                   final_state, max_retries, round_log, max_iter,
                   placeholder_successes, planner_state, context, proc>>

\* line 181: the loop ended without returning (max_retries <= 0)
PlanExhausted ==
    /\ pc = "plan"
    /\ plan_outcome = "running"
    /\ attempt >= max_retries
    /\ plan' = _create_fallback_plan("Unknown error", <<>>)
    /\ plan_outcome' = "returned"
    /\ UNCHANGED <<pc, iteration, discovery_mode, discovery_variable,
                   accumulated_actions, errors, success, engine_runs, config,
                   original_config, config_file, max_options, sorted_options,
                   option_index, action_records, results, resolved,
                   final_state, max_retries, attempt, last_error, response,
                   llm_calls, round_log, max_iter, placeholder_successes,
                   planner_state, context, proc, prompts>>

PlanAttemptAny == PlanAttempt(PlanReplies)

NextPlan == PlanAttemptAny \/ PlanExhausted

SpecPlan == InitPlan /\ [][NextPlan]_vars

----------------------------------------------------------------------------
(* The engineer's actions: EngineerAgent.execute_plan, one action for the   *)
(* preamble, one per pass of the loop over the options, one for the return. *)

Call(tool, params) == [tool |-> tool, params |-> params, form |-> "ok"]

Placeholder(name) == Call(PlaceholderTool, [name |-> name, reason |-> "r"])

SetValue(name, value) ==
    Call("set_environment_variable_value", [name |-> name, value |-> value, reason |-> "r"])

AddPseudofile(filepath, name) ==
    Call("add_pseudofile", [filepath |-> filepath, name |-> name, reason |-> "r"])

\* what json.loads gives for an LLM reply of the resolver
Execute(tool_calls) ==
    [kind |-> "object", action |-> "execute", skip_reason |-> "", tool_calls |-> tool_calls]

Skip(skip_reason) ==
    [kind |-> "object", action |-> "skip", skip_reason |-> skip_reason, tool_calls |-> <<>>]

Unusable(kind) == [kind |-> kind, action |-> "", skip_reason |-> "", tool_calls |-> <<>>]

\* lines 189-220
ExecStart ==
    /\ pc = "engineer"
    /\ action_records' = <<>>
    /\ sorted_options' = limit_options(sort_options(plan.options), max_options)
    /\ results' = NoResults
    /\ option_index' = 0
    /\ resolved' = <<>>
    /\ pc' = "exec_loop"
    /\ UNCHANGED <<iteration, discovery_mode, discovery_variable,
                   accumulated_actions, errors, success, engine_runs, config,
                   original_config, config_file, plan, max_options,
                   final_state, max_retries, attempt, last_error, response,
                   llm_calls, plan_outcome, round_log, max_iter,
                   placeholder_successes, planner_state, context, proc, prompts>>

\* lines 223-305: one option.  script holds the LLM's replies to the attempts
\* of the resolver, io the outcome of the file operations of the option's calls.
ExecOption(Scripts, IOs) ==
    /\ pc = "exec_loop"
    /\ option_index < Len(sorted_options)
    /\ \E script \in Scripts, io \in IOs :
       \E llm_response \in {_call_llm_for_implementation(script, EngineerMaxRetries)} :
       \E res \in {_implement_option(llm_response,
                                     [k \in 1..Len(llm_response.tool_calls) |-> io],
                                     action_records, config, config_file)} :
       \E rec \in {ActionRecord(sorted_options[option_index + 1], res)} :
          /\ config' = res.config
          /\ config_file' = res.file
          /\ resolved' = Append(resolved,
                                [action |-> llm_response.action,
                                 tool_calls |-> llm_response.tool_calls,
                                 io |-> io, statuses |-> res.statuses,
                                 status |-> res.status,
                                 script |-> script,
                                 calls |-> llm_response.calls])
          /\ placeholder_successes' =
                placeholder_successes
                + Cardinality({k \in 1..Len(res.statuses) :
                                  /\ llm_response.tool_calls[k].tool = PlaceholderTool
                                  /\ res.statuses[k] = "success"})
          /\ IF rec.ok
             THEN /\ action_records' = Append(action_records, rec.record)
                  /\ results' = count(results, res.status)
                  /\ option_index' = option_index + 1
                  /\ pc' = pc
             ELSE /\ pc' = "exec_raised"
                  /\ UNCHANGED <<action_records, results, option_index>>
    /\ UNCHANGED <<iteration, discovery_mode, discovery_variable,
                   accumulated_actions, errors, success, engine_runs,
                   original_config, plan, max_options, sorted_options,
                   final_state, max_retries, attempt, last_error, response,
                   llm_calls, plan_outcome, round_log, max_iter,
                   planner_state, context, proc, prompts>>

\* execute_plan returns; EngineerAgent.__call__ (lines 675-707) hands the
\* records to the graph with discovery_mode False
ExecFinish ==
    /\ pc = "exec_loop"
    /\ option_index = Len(sorted_options)
    /\ pc' = "exec_done"
    /\ final_state' = [returned |-> TRUE, plan |-> plan, actions |-> action_records,
                       discovery_mode |-> FALSE]
    /\ UNCHANGED <<iteration, discovery_mode, discovery_variable,
                   accumulated_actions, errors, success, engine_runs, config,
                   original_config, config_file, plan, max_options,
                   sorted_options, option_index, action_records, results,
                   resolved, max_retries, attempt, last_error, response,
                   llm_calls, plan_outcome, round_log, max_iter,
                   placeholder_successes, planner_state, context, proc, prompts>>

----------------------------------------------------------------------------
(* SpecExec: one EngineerAgent executing one plan on one config.yaml *)

\* the plans and the values of max_options (0 executes every option)
ExecInputs ==
    {<<"plan0", DefaultMaxOptions>>, <<"plan2", 0>>, <<"plan2", 1>>,
     <<"plan3", 0>>, <<"plan3", DefaultMaxOptions>>, <<"plan4", 2>>,
     <<"plan4", DefaultMaxOptions>>, <<"plan4", 0>>}

\* config.yaml before the run: empty, or with env.igloo_init and one variable
InitialFiles ==
    {EmptyDict,
     Dict([x \in {"env"} |->
              Dict([y \in {"igloo_init", "sxid"} |->
                       IF y = "sxid" THEN Str("old") ELSE Str("/init")])])}

ExecToolCalls ==
    {<<Placeholder("sxid")>>, <<Placeholder("net.mac")>>, <<Placeholder("lang")>>,
     <<Placeholder("igloo_init")>>,
     <<Placeholder("sxid"), Placeholder("lang")>>,
     <<SetValue("sxid", "v1"), Call("reboot", [reason |-> "r"])>>,
     <<Call("reboot", [reason |-> "r"]),
       Call("set_environment_variable_value", [name |-> "sxid"]),
       Placeholder("igloo_init"), SetValue("lang", "v2")>>,
     <<Placeholder("sxid"), Placeholder("lang"), SetValue("sxid", "v1")>>,
     <<Call("remove_environment_variable", [name |-> "sxid"])>>,
     <<AddPseudofile("/dev/mtd0", "bootloader")>>,
     <<AddPseudofile("/dev/mtd0", "")>>,
     <<AddPseudofile("/dev/gpio", "bootloader")>>,
     <<Call("add_pseudofile", [filepath |-> "/dev/gpio", reason |-> "r"])>>,
     <<[tool |-> "change_init_program", params |-> EmptyMap, form |-> "params_not_dict"]>>}

ExecScripts ==
    {<<Execute(c), Unusable("llm_error")>> : c \in ExecToolCalls}
    \cup {<<Skip("not needed"), Unusable("llm_error")>>,
          <<Unusable("invalid_json"), Execute(<<Placeholder("sxid")>>)>>,
          <<Skip(""), [Execute(<<>>) EXCEPT !.action = "retry"]>>,
          <<Execute(<<>>), Unusable("not_object")>>,
          <<Execute(<<[tool |-> "", params |-> EmptyMap, form |-> "not_dict"]>>),
            Execute(<<[tool |-> "", params |-> EmptyMap, form |-> "missing_fields"]>>)>>}

ExecIOs == {"ok", "open_failed"}

InitExec ==
    /\ InitCommon
    /\ planner_state = NoPlannerState
    /\ pc = "engineer"
    /\ plan_outcome = "idle"
    /\ max_iter = 0
    /\ max_retries = PlannerMaxRetries
    /\ \E input \in ExecInputs :
          /\ plan = _parse_plan(<<input[1]>>).plan
          /\ max_options = input[2]
    /\ config_file \in InitialFiles
    /\ config = registry_init(config_file).config
    /\ original_config = registry_init(config_file).original_config

\* the resolver's replies in a run of more than DefaultMaxOptions options
WideRunScripts ==
    {<<Skip("not needed"), Unusable("llm_error")>>,
     <<Execute(<<Placeholder("sxid")>>), Unusable("llm_error")>>,
     <<Execute(<<SetValue("sxid", "v1"), Call("reboot", [reason |-> "r"])>>),
       Unusable("llm_error")>>}

ExecOptionAny ==
    ExecOption(IF Len(sorted_options) > DefaultMaxOptions THEN WideRunScripts ELSE ExecScripts,
               IF Len(sorted_options) > DefaultMaxOptions THEN {"ok"} ELSE ExecIOs)

NextExec == ExecStart \/ ExecOptionAny \/ ExecFinish

SpecExec == InitExec /\ [][NextExec]_vars

----------------------------------------------------------------------------
(* Spec: rehost_firmware, the controller of the rounds.  A round is the     *)
(* engine run, the construction of the context and of the workflow, the     *)
(* planner node (PlanAttempt, PlanExhausted), the engineer node (ExecStart, *)
(* ExecOption, ExecFinish) and the bookkeeping after workflow.run.  The     *)
(* workflow builds its planner with the default max_retries, so the loop of *)
(* plan() always returns or raises from inside (PlanExhausted is not a step *)
(* of a round).                                                             *)

MaxIter == 2

\* a transition that leaves discovery mode but keeps the variable
_check_discovery_mode_transitions_keeps_variable(actions, mode, variable, state) ==
    LET Enter(action) ==
            [discovery_mode |-> TRUE,
             discovery_variable |-> IF "name" \in DOMAIN action.input
                                    THEN action.input["name"] ELSE "unknown"]
        Scan(placeholders) ==
            IF placeholders = {}
            THEN [discovery_mode |-> mode, discovery_variable |-> variable]
            ELSE Enter(actions[CHOOSE i \in placeholders : \A j \in placeholders : i <= j])
    IN IF mode /\ state.discovery_mode = FALSE
       THEN [discovery_mode |-> FALSE, discovery_variable |-> variable]
       ELSE IF mode
       THEN [discovery_mode |-> mode, discovery_variable |-> variable]
       ELSE Scan({i \in 1..Len(actions) : actions[i].tool = PlaceholderTool})

\* _check_discovery_mode_transitions, lines 150-200
_check_discovery_mode_transitions(actions, mode, variable, state) ==
    LET Enter(action) ==
            [discovery_mode |-> TRUE,
             discovery_variable |-> IF "name" \in DOMAIN action.input
                                    THEN action.input["name"] ELSE "unknown"]
        Scan(placeholders) ==
            IF placeholders = {}
            THEN [discovery_mode |-> mode, discovery_variable |-> variable]
            ELSE Enter(actions[CHOOSE i \in placeholders : \A j \in placeholders : i <= j])
    IN IF mode /\ state.discovery_mode = FALSE
       THEN [discovery_mode |-> FALSE, discovery_variable |-> None]
       ELSE IF mode
       THEN [discovery_mode |-> mode, discovery_variable |-> variable]
       ELSE Scan({i \in 1..Len(actions) : actions[i].tool = PlaceholderTool})

InitRehost ==
    /\ InitCommon
    /\ planner_state = NoPlannerState
    /\ pc = "start"
    /\ plan_outcome = "idle"
    /\ max_iter \in 0..MaxIter
    /\ max_retries = PlannerMaxRetries
    /\ max_options = DefaultMaxOptions
    /\ plan = NoPlan
    /\ config_file \in InitialFiles
    /\ config = EmptyDict
    /\ original_config = NoneNode

\* lines 280-296: _validate_inputs and _initialize_penguin
ValidateAndInit ==
    /\ pc = "start"
    /\ \E outcome \in {"invalid", "init_failed", "ok"} :
          CASE outcome = "invalid" ->
                 /\ errors' = Append(errors, "Input validation failed")
                 /\ pc' = "returned"
            [] outcome = "init_failed" ->
                 /\ errors' = Append(errors, "Penguin init failed")
                 /\ pc' = "returned"
            [] OTHER ->
                 /\ pc' = "loop"
                 /\ UNCHANGED errors
    /\ UNCHANGED <<iteration, discovery_mode, discovery_variable,
                   accumulated_actions, success, engine_runs, config,
                   original_config, config_file, plan, max_options,
                   sorted_options, option_index, action_records, results,
                   resolved, final_state, max_retries, attempt, last_error,
                   response, llm_calls, plan_outcome, round_log, max_iter,
                   placeholder_successes, planner_state, context, proc, prompts>>

\* lines 310-315: the head of the loop and _run_penguin_iteration, which is
\* called outside the try.  outcome = "raise": penguin_client.run raised
\* (FileNotFoundError of client.py lines 101-106) or its result could not be
\* read; the exception leaves rehost_firmware.
RunPenguinIteration ==
    /\ pc = "loop"
    /\ iteration < max_iter
    /\ engine_runs' = engine_runs + 1
    /\ round_log' = Append(round_log, [discovery_mode |-> discovery_mode,
                                       discovery_variable |-> discovery_variable])
    /\ \E outcome \in {"ok", "raise"} :
          pc' = IF outcome = "ok" THEN "round" ELSE "aborted"
    /\ UNCHANGED <<iteration, discovery_mode, discovery_variable,
                   accumulated_actions, errors, success, config,
                   original_config, config_file, plan, max_options,
                   sorted_options, option_index, action_records, results,
                   resolved, final_state, max_retries, attempt, last_error,
                   response, llm_calls, plan_outcome, max_iter,
                   placeholder_successes, planner_state, context, proc, prompts>>

\* lines 319-351: _build_multi_agent_context, create_rehosting_workflow (a new
\* planner, engineer and registry) and the start of workflow.run.  An
\* exception here is caught at line 389.
StartWorkflow ==
    /\ pc = "round"
    /\ \E outcome \in {"ok", "raise"} :
          IF outcome = "ok"
          THEN /\ config' = registry_init(config_file).config
               /\ original_config' = registry_init(config_file).original_config
               /\ plan' = NoPlan
               /\ plan_outcome' = "running"
               /\ prompts' = <<>>
               /\ pc' = "plan"
               /\ UNCHANGED <<errors, iteration>>
          ELSE /\ errors' = Append(errors, "Multi-agent workflow failed")
               /\ iteration' = iteration + 1
               /\ pc' = "loop"
               /\ UNCHANGED <<config, original_config, plan, plan_outcome, prompts>>
    /\ UNCHANGED <<discovery_mode, discovery_variable, accumulated_actions,
                   success, engine_runs, config_file, max_options,
                   sorted_options, option_index, action_records, results,
                   resolved, final_state, max_retries, attempt, last_error,
                   response, llm_calls, round_log, max_iter,
                   placeholder_successes, planner_state, context, proc>>

\* the planner node returns {"plan": plan}; the graph moves to the engineer
PlannerDone ==
    /\ pc = "plan"
    /\ plan_outcome = "returned"
    /\ pc' = "engineer"
    /\ plan_outcome' = "idle"
    /\ attempt' = 0
    /\ last_error' = None
    /\ response' = <<>>
    /\ llm_calls' = 0
    /\ UNCHANGED <<iteration, discovery_mode, discovery_variable,
                   accumulated_actions, errors, success, engine_runs, config,
                   original_config, config_file, plan, max_options,
                   sorted_options, option_index, action_records, results,
                   resolved, final_state, max_retries, round_log, max_iter,
                   placeholder_successes, planner_state, context, proc, prompts>>

\* lines 354-386: the bookkeeping after workflow.run returned
RoundEnd ==
    /\ pc = "exec_done"
    /\ IF final_state.plan # NoPlan
       THEN \E t \in {_check_discovery_mode_transitions(
                           final_state.actions, discovery_mode, discovery_variable,
                           final_state)} :
               /\ accumulated_actions' = accumulated_actions \o final_state.actions
               /\ discovery_mode' = t.discovery_mode
               /\ discovery_variable' = t.discovery_variable
               /\ placeholder_successes' =
                     IF discovery_mode /\ ~t.discovery_mode THEN 0
                     ELSE placeholder_successes
               /\ UNCHANGED errors
       ELSE /\ errors' = Append(errors, "Multi-agent workflow failed to generate plan")
            /\ UNCHANGED <<accumulated_actions, discovery_mode, discovery_variable,
                           placeholder_successes>>
    /\ iteration' = iteration + 1
    /\ pc' = "loop"
    /\ plan' = NoPlan
    /\ sorted_options' = <<>>
    /\ option_index' = 0
    /\ action_records' = <<>>
    /\ results' = NoResults
    /\ resolved' = <<>>
    /\ final_state' = NoState
    /\ UNCHANGED <<success, engine_runs, config, original_config,
                   config_file, max_options, max_retries, attempt,
                   last_error, response, llm_calls, plan_outcome, round_log,
                   max_iter, planner_state, context, proc, prompts>>

\* lines 389-393: an exception of the planner or of the engineer left
\* workflow.run
RoundException ==
    /\ \/ pc = "plan" /\ plan_outcome = "raised"
       \/ pc = "exec_raised"
    /\ errors' = Append(errors, "Multi-agent workflow failed")
    /\ iteration' = iteration + 1
    /\ pc' = "loop"
    /\ plan' = NoPlan
    /\ plan_outcome' = "idle"
    /\ attempt' = 0
    /\ last_error' = None
    /\ response' = <<>>
    /\ llm_calls' = 0
    /\ sorted_options' = <<>>
    /\ option_index' = 0
    /\ action_records' = <<>>
    /\ results' = NoResults
    /\ resolved' = <<>>
    /\ UNCHANGED <<discovery_mode, discovery_variable, accumulated_actions,
                   success, engine_runs, config, original_config,
                   config_file, max_options, final_state, max_retries,
                   round_log, max_iter, placeholder_successes, planner_state,
                   context, proc, prompts>>

\* a summary that reports success only when no round appended an error
FinalSummary_success_without_errors ==
    /\ pc = "loop"
    /\ iteration >= max_iter
    /\ success' = (errors = <<>>)
    /\ pc' = "returned"
    /\ UNCHANGED <<iteration, discovery_mode, discovery_variable,
                   accumulated_actions, errors, engine_runs, config,
                   original_config, config_file, plan, max_options,
                   sorted_options, option_index, action_records, results,
                   resolved, final_state, max_retries, attempt, last_error,
                   response, llm_calls, plan_outcome, round_log, max_iter,
                   placeholder_successes, planner_state, context, proc, prompts>>

\* lines 396-400: the loop is over
FinalSummary ==
    /\ pc = "loop"
    /\ iteration >= max_iter
    /\ success' = TRUE
    /\ pc' = "returned"
    /\ UNCHANGED <<iteration, discovery_mode, discovery_variable,
                   accumulated_actions, errors, engine_runs, config,
                   original_config, config_file, plan, max_options,
                   sorted_options, option_index, action_records, results,
                   resolved, final_state, max_retries, attempt, last_error,
                   response, llm_calls, plan_outcome, round_log, max_iter,
                   placeholder_successes, planner_state, context, proc, prompts>>

\* what the LLM replies to the planner in a round
RoundReplies ==
    {LLMRaised} \cup {[raised |-> FALSE, content |-> <<d>>] :
                           d \in {"plan", "plan2", "plan_apply", "cut", "null"}}

\* what the LLM replies to the resolver in a round
RoundScripts ==
    {<<r, Unusable("llm_error")>> :
        r \in {Skip("not needed"),
               Execute(<<Placeholder("sxid")>>),
               Execute(<<Placeholder("lang")>>),
               Execute(<<Placeholder("igloo_init")>>),
               Execute(<<SetValue("sxid", "v1")>>),
               Execute(<<SetValue("lang", "v2"), Placeholder("sxid")>>),
               Execute(<<[tool |-> "change_init_program", params |-> EmptyMap,
                          form |-> "params_not_dict"]>>)}}

\* in a round every file operation of the tools succeeds (SpecExec has the
\* failures)
RoundIOs == {"ok"}

PlanAttemptRound == PlanAttempt(RoundReplies)

ExecOptionRound == ExecOption(RoundScripts, RoundIOs)

Next ==
    \/ ValidateAndInit
    \/ RunPenguinIteration
    \/ StartWorkflow
    \/ PlanAttemptRound
    \/ PlannerDone
    \/ ExecStart
    \/ ExecOptionRound
    \/ ExecFinish
    \/ RoundEnd
    \/ RoundException
    \/ FinalSummary

Spec == InitRehost /\ [][Next]_vars

----------------------------------------------------------------------------
(* SpecTools: one ConfigToolRegistry on one config.yaml, its tools called   *)
(* one after the other with well-formed keyword arguments.  resolved logs   *)
(* each call, the outcome of its file operation and the status it returned. *)

\* config.yaml before the registry is built
ToolInitialFiles ==
    InitialFiles
    \cup {Dict([x \in {"pseudofiles", "core"} |->
                  IF x = "core" THEN Dict([y \in {"arch"} |-> Str("armel")])
                  ELSE Dict([y \in {"/dev/mtd0"} |->
                               Dict([z \in {"name"} |-> Str("bootloader")])])])}

\* the calls of the model
RegistryCalls ==
    {Placeholder(n) : n \in {"sxid", "net.mac", "igloo_init"}}
    \cup {SetValue(n, "v1") : n \in {"sxid", "net.mac", "igloo_init"}}
    \cup {Call("remove_environment_variable", [name |-> n, reason |-> "r"]) :
             n \in {"sxid", "lang", "igloo_init"}}
    \cup {Call("add_pseudofile", [filepath |-> f, name |-> n, reason |-> "r"]) :
             f \in {"/dev/mtd0", "/dev/gpio", "/etc/passwd"}, n \in {"bootloader", ""}}
    \cup {Call("remove_pseudofile", [filepath |-> f, reason |-> "r"]) :
             f \in {"/dev/mtd0", "/proc/version"}}
    \cup {Call("set_file_read_behavior",
                [filepath |-> f, model |-> m, value |-> "0", reason |-> "r"]) :
             f \in {"/dev/mtd0", "/proc/version"},
             m \in {"return_zero", "const_buf", "random"}}
    \cup {Call("change_init_program", [error |-> "e"]),
          Call("grep_strace_output", [grep_command |-> "g", reason |-> "r"]),
          Call("replace_script_exit0", [script_path |-> "/etc/rc", reason |-> "r"]),
          Call("replace_script_exit0", [script_path |-> "config.yaml", reason |-> "r"])}

\* the outcomes the environment can give the file operations of a call
RegistryIOs(tool) ==
    CASE tool \in {"grep_strace_output", "replace_script_exit0"} -> {"ok", "missing"}
      [] tool = "change_init_program" -> SaveOutcomes \cup {"missing"}
      [] OTHER -> SaveOutcomes

MaxCalls == 2

InitTools ==
    /\ InitCommon
    /\ planner_state = NoPlannerState
    /\ pc = "registry"
    /\ plan_outcome = "idle"
    /\ max_iter = 0
    /\ max_retries = PlannerMaxRetries
    /\ max_options = DefaultMaxOptions
    /\ plan = NoPlan
    /\ config_file \in ToolInitialFiles
    /\ config = registry_init(config_file).config
    /\ original_config = registry_init(config_file).original_config

\* get_tool(name)(**params)
CallTool ==
    /\ pc = "registry"
    /\ Len(resolved) < MaxCalls
    /\ \E call \in RegistryCalls :
       \E io \in RegistryIOs(call.tool) :
       \E r \in {get_tool(call.tool, config, config_file, call.params, io)} :
          /\ config' = r.config
          /\ config_file' = r.file
          /\ resolved' = Append(resolved, [call |-> call, io |-> io, status |-> r.status])
    /\ UNCHANGED <<pc, iteration, discovery_mode, discovery_variable,
                   accumulated_actions, errors, success, engine_runs,
                   original_config, plan, max_options, sorted_options,
                   option_index, action_records, results, final_state,
                   max_retries, attempt, last_error, response, llm_calls,
                   plan_outcome, round_log, max_iter, placeholder_successes,
                   planner_state, context, proc, prompts>>

NextTools == CallTool

SpecTools == InitTools /\ [][NextTools]_vars

----------------------------------------------------------------------------
(* SpecDocument: the nested-path helpers and get_config_diff of one         *)
(* ConfigToolRegistry, called directly.  A path is the sequence of its      *)
(* characters and a key of the document the sequence of the characters of   *)
(* one part.  resolved logs each call with what it returned.                *)

\* str.find('.'): the first position of a dot, 0 when there is none
find_dot(chars) ==
    IF \E i \in 1..Len(chars) : chars[i] = "."
    THEN CHOOSE i \in 1..Len(chars) : chars[i] = "." /\ \A j \in 1..(i - 1) : chars[j] # "."
    ELSE 0

\* path.split('.')
RECURSIVE split(_)
split(chars) ==
    IF find_dot(chars) = 0 THEN <<chars>>
    ELSE <<SubSeq(chars, 1, find_dot(chars) - 1)>>
         \o split(SubSeq(chars, find_dot(chars) + 1, Len(chars)))

\* the lines of yaml.dump(node): one per scalar or empty map, with the keys
\* that lead to it
RECURSIVE yaml_lines(_, _)
yaml_lines(node, prefix) ==
    IF IsDict(node) /\ DOMAIN node.d # {}
    THEN UNION {yaml_lines(node.d[key], Append(prefix, key)) : key \in DOMAIN node.d}
    ELSE {<<prefix, node>>}

\* get_config_diff: the message when there is no original_config, else the
\* lines the unified diff marks with "-" and with "+"
get_config_diff(original, cfg) ==
    IF original \in {NoneNode, EmptyDict}
    THEN [compared |-> FALSE, removed |-> {}, added |-> {}]
    ELSE [compared |-> TRUE,
          removed |-> yaml_lines(original, <<>>) \ yaml_lines(cfg, <<>>),
          added   |-> yaml_lines(cfg, <<>>) \ yaml_lines(original, <<>>)]

\* the paths of the model: "", "a", "b", "a.b", "b.a", "a.b.a", "a..b", ".a", "a."
DocPaths ==
    {<<>>, <<"a">>, <<"b">>, <<"a", ".", "b">>, <<"b", ".", "a">>,
     <<"a", ".", "b", ".", "a">>, <<"a", ".", ".", "b">>, <<".", "a">>, <<"a", ".">>}

\* config.yaml before the registry is built: missing or empty, a: x,
\* a: {b: x}, and a: {b: x} with b: {}
DocInitialFiles ==
    {EmptyDict,
     Dict([x \in {<<"a">>} |-> Str("x")]),
     Dict([x \in {<<"a">>} |-> Dict([y \in {<<"b">>} |-> Str("x")])]),
     Dict([x \in {<<"a">>, <<"b">>} |->
              IF x = <<"a">> THEN Dict([y \in {<<"b">>} |-> Str("x")]) ELSE EmptyDict])}

InitDocument ==
    /\ InitCommon
    /\ planner_state = NoPlannerState
    /\ pc = "document"
    /\ plan_outcome = "idle"
    /\ max_iter = 0
    /\ max_retries = PlannerMaxRetries
    /\ max_options = DefaultMaxOptions
    /\ plan = NoPlan
    /\ config_file \in DocInitialFiles
    /\ config = registry_init(config_file).config
    /\ original_config = registry_init(config_file).original_config

\* _set_nested_value(path, value); raised: the call ended in a TypeError
SetNested ==
    /\ pc = "document"
    /\ Len(resolved) < MaxCalls
    /\ \E path \in DocPaths, value \in {Str("v"), NoneNode, EmptyDict} :
       \E r \in {_set_nested_value(config, split(path), value)} :
          /\ config' = r.node
          /\ resolved' = Append(resolved, [op |-> "set", path |-> path, value |-> value,
                                           raised |-> ~r.ok, result |-> NoneNode])
    /\ UNCHANGED <<pc, iteration, discovery_mode, discovery_variable,
                   accumulated_actions, errors, success, engine_runs,
                   original_config, config_file, plan, max_options, sorted_options,
                   option_index, action_records, results, final_state,
                   max_retries, attempt, last_error, response, llm_calls,
                   plan_outcome, round_log, max_iter, placeholder_successes,
                   planner_state, context, proc, prompts>>

\* _get_nested_value(path)
GetNested ==
    /\ pc = "document"
    /\ Len(resolved) < MaxCalls
    /\ \E path \in DocPaths :
          resolved' = Append(resolved, [op |-> "get", path |-> path, value |-> NoneNode,
                                        raised |-> FALSE,
                                        result |-> _get_nested_value(config, split(path))])
    /\ UNCHANGED <<pc, iteration, discovery_mode, discovery_variable,
                   accumulated_actions, errors, success, engine_runs, config,
                   original_config, config_file, plan, max_options, sorted_options,
                   option_index, action_records, results, final_state,
                   max_retries, attempt, last_error, response, llm_calls,
                   plan_outcome, round_log, max_iter, placeholder_successes,
                   planner_state, context, proc, prompts>>

\* get_config_diff()
ConfigDiff ==
    /\ pc = "document"
    /\ Len(resolved) < MaxCalls
    /\ resolved' = Append(resolved, [op |-> "diff", path |-> <<>>, value |-> NoneNode,
                                     raised |-> FALSE,
                                     result |-> get_config_diff(original_config, config)])
    /\ UNCHANGED <<pc, iteration, discovery_mode, discovery_variable,
                   accumulated_actions, errors, success, engine_runs, config,
                   original_config, config_file, plan, max_options, sorted_options,
                   option_index, action_records, results, final_state,
                   max_retries, attempt, last_error, response, llm_calls,
                   plan_outcome, round_log, max_iter, placeholder_successes,
                   planner_state, context, proc, prompts>>

NextDocument == SetNested \/ GetNested \/ ConfigDiff

SpecDocument == InitDocument /\ [][NextDocument]_vars

----------------------------------------------------------------------------
(* SpecEngine: _run_with_realtime_capture on one command.  The child writes *)
(* its lines of output, stdout and stderr merged, to a pipe that holds      *)
(* PipeCapacity lines; a write to a full pipe blocks.  subprocess.run is    *)
(* Popen followed by communicate(), which reads the pipe to its end and     *)
(* waits for the child; capture.write appends to capture.lines and echoes   *)
(* to sys.stdout.                                                           *)
(*   proc.parent  "idle", "communicate", "echo", "returned"                 *)
(*   proc.child   "none", "running", "exited"                               *)
(*   proc.todo    the lines the child has yet to write                      *)
(*   proc.pipe    written and not yet read                                  *)
(*   proc.stdout  what communicate() has read: result.stdout                *)
(*   proc.lines   capture.lines, the lines echoed so far                    *)

MaxLines == 3

PipeCapacity == 2

InitEngine ==
    /\ InitCommon
    /\ planner_state = NoPlannerState
    /\ pc = "engine"
    /\ plan_outcome = "idle"
    /\ max_iter = 0
    /\ max_retries = PlannerMaxRetries
    /\ max_options = DefaultMaxOptions
    /\ plan = NoPlan
    /\ config_file \in InitialFiles
    /\ config = registry_init(config_file).config
    /\ original_config = registry_init(config_file).original_config

\* lines 58-64: subprocess.run starts the child; out is what the command
\* prints before it exits
StartRun ==
    /\ pc = "engine"
    /\ proc.parent = "idle"
    /\ \E out \in UNION {[1..n -> {"l1", "l2"}] : n \in 0..MaxLines} :
          proc' = [proc EXCEPT !.parent = "communicate", !.child = "running", !.todo = out]
    /\ UNCHANGED <<pc, iteration, discovery_mode, discovery_variable,
                   accumulated_actions, errors, success, engine_runs, config,
                   original_config, config_file, plan, max_options, sorted_options,
                   option_index, action_records, results, resolved, final_state,
                   max_retries, attempt, last_error, response, llm_calls,
                   plan_outcome, round_log, max_iter, placeholder_successes,
                   planner_state, context, prompts>>

\* lines 79-84: subprocess.run raises (the command cannot be started);
\* capture.write(error_msg) and return
RunRaises ==
    /\ pc = "engine"
    /\ proc.parent = "idle"
    /\ proc' = [proc EXCEPT !.parent = "returned", !.lines = <<"error_msg">>]
    /\ UNCHANGED <<pc, iteration, discovery_mode, discovery_variable,
                   accumulated_actions, errors, success, engine_runs, config,
                   original_config, config_file, plan, max_options, sorted_options,
                   option_index, action_records, results, resolved, final_state,
                   max_retries, attempt, last_error, response, llm_calls,
                   plan_outcome, round_log, max_iter, placeholder_successes,
                   planner_state, context, prompts>>

\* the child writes its next line; the write blocks while the pipe is full
ChildWrite ==
    /\ pc = "engine"
    /\ proc.child = "running"
    /\ proc.todo # <<>>
    /\ Len(proc.pipe) < PipeCapacity
    /\ proc' = [proc EXCEPT !.pipe = Append(@, Head(proc.todo)), !.todo = Tail(@)]
    /\ UNCHANGED <<pc, iteration, discovery_mode, discovery_variable,
                   accumulated_actions, errors, success, engine_runs, config,
                   original_config, config_file, plan, max_options, sorted_options,
                   option_index, action_records, results, resolved, final_state,
                   max_retries, attempt, last_error, response, llm_calls,
                   plan_outcome, round_log, max_iter, placeholder_successes,
                   planner_state, context, prompts>>

\* the child exits after its last write
ChildExit ==
    /\ pc = "engine"
    /\ proc.child = "running"
    /\ proc.todo = <<>>
    /\ proc' = [proc EXCEPT !.child = "exited"]
    /\ UNCHANGED <<pc, iteration, discovery_mode, discovery_variable,
                   accumulated_actions, errors, success, engine_runs, config,
                   original_config, config_file, plan, max_options, sorted_options,
                   option_index, action_records, results, resolved, final_state,
                   max_retries, attempt, last_error, response, llm_calls,
                   plan_outcome, round_log, max_iter, placeholder_successes,
                   planner_state, context, prompts>>

\* communicate() reads what the pipe holds
CommunicateRead ==
    /\ pc = "engine"
    /\ proc.parent = "communicate"
    /\ proc.pipe # <<>>
    /\ proc' = [proc EXCEPT !.stdout = Append(@, Head(proc.pipe)), !.pipe = Tail(@)]
    /\ UNCHANGED <<pc, iteration, discovery_mode, discovery_variable,
                   accumulated_actions, errors, success, engine_runs, config,
                   original_config, config_file, plan, max_options, sorted_options,
                   option_index, action_records, results, resolved, final_state,
                   max_retries, attempt, last_error, response, llm_calls,
                   plan_outcome, round_log, max_iter, placeholder_successes,
                   planner_state, context, prompts>>

\* communicate() sees the end of the pipe and the child's exit:
\* subprocess.run returns result
CommunicateReturn ==
    /\ pc = "engine"
    /\ proc.parent = "communicate"
    /\ proc.child = "exited"
    /\ proc.pipe = <<>>
    /\ proc' = [proc EXCEPT !.parent = "echo"]
    /\ UNCHANGED <<pc, iteration, discovery_mode, discovery_variable,
                   accumulated_actions, errors, success, engine_runs, config,
                   original_config, config_file, plan, max_options, sorted_options,
                   option_index, action_records, results, resolved, final_state,
                   max_retries, attempt, last_error, response, llm_calls,
                   plan_outcome, round_log, max_iter, placeholder_successes,
                   planner_state, context, prompts>>

\* lines 67-69: capture.write(line) for the next line of result.stdout
EchoLine ==
    /\ pc = "engine"
    /\ proc.parent = "echo"
    /\ Len(proc.lines) < Len(proc.stdout)
    /\ proc' = [proc EXCEPT !.lines = Append(@, proc.stdout[Len(proc.lines) + 1])]
    /\ UNCHANGED <<pc, iteration, discovery_mode, discovery_variable,
                   accumulated_actions, errors, success, engine_runs, config,
                   original_config, config_file, plan, max_options, sorted_options,
                   option_index, action_records, results, resolved, final_state,
                   max_retries, attempt, last_error, response, llm_calls,
                   plan_outcome, round_log, max_iter, placeholder_successes,
                   planner_state, context, prompts>>

\* lines 72-77: return result, combined_output
RunReturn ==
    /\ pc = "engine"
    /\ proc.parent = "echo"
    /\ Len(proc.lines) = Len(proc.stdout)
    /\ proc' = [proc EXCEPT !.parent = "returned"]
    /\ UNCHANGED <<pc, iteration, discovery_mode, discovery_variable,
                   accumulated_actions, errors, success, engine_runs, config,
                   original_config, config_file, plan, max_options, sorted_options,
                   option_index, action_records, results, resolved, final_state,
                   max_retries, attempt, last_error, response, llm_calls,
                   plan_outcome, round_log, max_iter, placeholder_successes,
                   planner_state, context, prompts>>

NextEngine ==
    \/ StartRun \/ RunRaises \/ ChildWrite \/ ChildExit
    \/ CommunicateRead \/ CommunicateReturn \/ EchoLine \/ RunReturn

SpecEngine == InitEngine /\ [][NextEngine]_vars

----------------------------------------------------------------------------
(* SpecContext: FirmwarePlannerAgent._build_context on the State that       *)
(* _planner_node hands to the planner.  A context is the set of the sources *)
(* that have a section in the returned text: "config.yaml", the keys of     *)
(* rag_context, "previous_actions", "previous_engineer_summary" and         *)
(* "kb_insights".                                                           *)

\* the keys _build_multi_agent_context always sets (lines 115-119)
FixedSources == {"metadata", "penguin_init", "penguin_run"}

\* the keys that depend on the result artifacts of the run and on the round
OptionalSources ==
    {"console.log", "env_cmp.txt", "env_missing.yaml", "pseudofiles_failures.yaml",
     "previous_iterations"}

\* _extract_symptoms(rag_context) is not empty; console_symptom: the text of
\* console.log holds one of the phrases looked for
has_symptoms(state) ==
    \/ state.rag_context \cap {"env_missing.yaml", "env_cmp.txt",
                               "pseudofiles_failures.yaml"} # {}
    \/ "console.log" \in state.rag_context /\ state.console_symptom

\* an unfiltered context: the sections of normal mode in every mode
_build_context_unfiltered(state) ==
    (IF state.config_readable THEN {"config.yaml"} ELSE {})
    \cup state.rag_context
    \cup (IF state.previous_actions THEN {"previous_actions"} ELSE {})
    \cup (IF state.previous_engineer_summary THEN {"previous_engineer_summary"} ELSE {})
    \cup (IF has_symptoms(state) /\ state.kb_insights THEN {"kb_insights"} ELSE {})

\* _build_context: config_readable tells whether <project>/config.yaml exists
\* and can be read, previous_actions and previous_engineer_summary whether
\* the lists are non-empty, kb_insights whether the knowledge base is enabled
\* and answers the symptoms
_build_context(state) ==
    IF state.discovery_mode
    THEN state.rag_context \cap {"env_cmp.txt", "console.log"}
    ELSE (IF state.config_readable THEN {"config.yaml"} ELSE {})
         \cup state.rag_context
         \cup (IF state.previous_actions THEN {"previous_actions"} ELSE {})
         \cup (IF state.previous_engineer_summary
               THEN {"previous_engineer_summary"} ELSE {})
         \cup (IF has_symptoms(state) /\ state.kb_insights THEN {"kb_insights"} ELSE {})

\* the States of the model
PlannerStates ==
    [discovery_mode : BOOLEAN,
     discovery_variable : {"sxid"},
     rag_context : {FixedSources \cup o : o \in SUBSET OptionalSources},
     config_readable : BOOLEAN,
     previous_actions : BOOLEAN,
     previous_engineer_summary : BOOLEAN,
     console_symptom : BOOLEAN,
     kb_insights : BOOLEAN]

InitContext ==
    /\ InitCommon
    /\ pc = "planner_node"
    /\ plan_outcome = "idle"
    /\ max_iter = 0
    /\ max_retries = PlannerMaxRetries
    /\ max_options = DefaultMaxOptions
    /\ plan = NoPlan
    /\ config_file = EmptyDict
    /\ config = EmptyDict
    /\ original_config = NoneNode
    /\ planner_state \in PlannerStates

\* plan(), line 147
BuildContext ==
    /\ pc = "planner_node"
    /\ context' = _build_context(planner_state)
    /\ pc' = "context_built"
    /\ UNCHANGED <<iteration, discovery_mode, discovery_variable,
                   accumulated_actions, errors, success, engine_runs, config,
                   original_config, config_file, plan, max_options,
                   sorted_options, option_index, action_records, results,
                   resolved, final_state, max_retries, attempt, last_error,
                   response, llm_calls, plan_outcome, round_log, max_iter,
                   placeholder_successes, planner_state, proc, prompts>>

NextContext == BuildContext

SpecContext == InitContext /\ [][NextContext]_vars

----------------------------------------------------------------------------
(* Properties of plan generation, checked under SpecPlan *)

IsFallback(p) ==
    /\ Len(p.options) = 1
    /\ p.options[1].solution = "Manual review and intervention required"
    /\ p.options[1].priority = "critical"

\* id, objectives and a list of options; every option carries the five
\* required fields and one of the four priorities
SchemaValid(p) ==
    /\ p.id \in {"given", "fw_plan_uuid"}
    /\ p.objectives = "list_of_str"
    /\ \A i \in 1..Len(p.options) :
          /\ p.options[i].form = "dict"
          /\ p.options[i].missing \cap option_required = {}
          /\ p.options[i].priority \in Priorities

\* the last reply is a document that lacks only its id
LacksOnlyId(text) ==
    /\ extract_json(text).ok
    /\ LET d == extract_json(text).value
       IN /\ d.type = "object"
          /\ d.id = "absent"
          /\ d.objectives = "list_of_str"
          /\ d.options.tag = "list"
          /\ \A i \in 1..Len(d.options.items) :
                /\ d.options.items[i].form = "dict"
                /\ d.options.items[i].missing \cap option_required = {}
                /\ d.options.items[i].priority \in Priorities

\* C6: plan() never raises to its caller, whatever the LLM replies and
\* whether or not the LLM call itself fails: it always returns a Plan.
C6_PlanNeverRaises == plan_outcome # "raised"

\* C7: plan() issues at most max_retries LLM calls; a plan that is not the
\* fallback is the parse of the reply of the first attempt that validated;
\* the fallback is returned after exactly max_retries failed attempts; and
\* once max_retries attempts have failed, plan() has returned the fallback.
C7_TerminatesWithinMaxRetries ==
    /\ llm_calls <= max_retries
    /\ (plan_outcome = "returned" /\ ~IsFallback(plan))
          => /\ _parse_plan(response).kind = "plan"
             /\ plan = _parse_plan(response).plan
             /\ llm_calls = attempt + 1
    /\ (plan_outcome = "returned" /\ IsFallback(plan)) => llm_calls = max_retries
    /\ (plan_outcome # "running" /\ llm_calls = max_retries
           /\ ~(plan_outcome = "returned" /\ ~IsFallback(plan)))
          => (plan_outcome = "returned" /\ IsFallback(plan))

\* C8: every plan that plan() returns, the fallback included, is schema-valid;
\* a reply that lacks only the id is returned with a synthesized id and its
\* own options, and the attempt is not counted as failed.
C8_ReturnedPlanSchemaValid ==
    plan_outcome = "returned" =>
        /\ SchemaValid(plan)
        /\ LacksOnlyId(response) =>
              /\ plan.id = "fw_plan_uuid"
              /\ plan.options = extract_json(response).value.options.items
              /\ ~IsFallback(plan)
              /\ attempt = llm_calls - 1

\* a retry returned a plan whose id was synthesized
C8_Witness ==
    /\ plan_outcome = "returned"
    /\ attempt = 1
    /\ LacksOnlyId(response)
    /\ response[1] = Fence
    /\ plan.id = "fw_plan_uuid"

----------------------------------------------------------------------------
(* Properties of plan execution, checked under SpecExec *)

\* option i was resolved to exactly one placeholder call that is valid by
\* itself: a name other than igloo_init, and a file that can be written
OnePlaceholderCall(i) ==
    /\ resolved[i].action = "execute"
    /\ Len(resolved[i].tool_calls) = 1
    /\ resolved[i].tool_calls[1].tool = PlaceholderTool
    /\ resolved[i].tool_calls[1].form = "ok"
    /\ resolved[i].tool_calls[1].params["name"] # "igloo_init"
    /\ resolved[i].io = "ok"

RecordsWith(status) == {i \in 1..Len(action_records) : action_records[i].status = status}

ThreePlaceholderOptions ==
    /\ pc = "exec_done"
    /\ Len(resolved) = 3
    /\ \A i \in 1..3 : OnePlaceholderCall(i)
    /\ \A i, j \in 1..3 :
          i # j => resolved[i].tool_calls[1].params["name"]
                      # resolved[j].tool_calls[1].params["name"]

\* C1: a plan of three options, each resolved to one placeholder call with a
\* name of its own, ends with exactly one option succeeded and two failed.
C1_OnePlaceholderPerRound ==
    ThreePlaceholderOptions =>
        /\ Cardinality(RecordsWith("success")) = 1
        /\ Cardinality(RecordsWith("failed")) = 2
        /\ results.completed = 1
        /\ results.failed = 2

----------------------------------------------------------------------------
(* Properties of the controller, checked under Spec *)

\* the step ends a round: the loop variable advances
RoundEnds == iteration' = iteration + 1

\* the records of the round hold a successful placeholder call for variable v
PlaceholderSucceededFor(v) ==
    \E i \in 1..Len(action_records) :
       /\ action_records[i].tool = PlaceholderTool
       /\ action_records[i].status = "success"
       /\ "name" \in DOMAIN action_records[i].input
       /\ action_records[i].input["name"] = v

PlaceholderSucceeded ==
    \E i \in 1..Len(action_records) :
       /\ action_records[i].tool = PlaceholderTool
       /\ action_records[i].status = "success"

\* C2: from the start of the workflow, or from the last Discovery -> Normal
\* transition, to the next such transition at most one placeholder call
\* succeeds, across the options of a round and across rounds.
C2_OnePlaceholderPerCycle == placeholder_successes <= 1

\* C3: the two-state protocol.  A round that ran in Normal ends in
\* Discovery(v) exactly when it recorded a successful placeholder call, and v
\* is the variable of such a call; a round that ran in Discovery(v) ends in
\* Normal with no variable.
C3_DiscoveryLifecycle ==
    [][RoundEnds =>
          IF discovery_mode
          THEN ~discovery_mode' /\ discovery_variable' = None
          ELSE /\ discovery_mode' <=> PlaceholderSucceeded
               /\ discovery_mode' => PlaceholderSucceededFor(discovery_variable')]_vars

\* C4: Normal -> Discovery(v) happens only at the end of a round whose records
\* hold a placeholder record with status success and input.name = v.
C4_EnterOnlyOnSuccess ==
    [][(~discovery_mode /\ discovery_mode') =>
          PlaceholderSucceededFor(discovery_variable')]_vars

\* C5: when a round that ran in Discovery is over, the state is Normal,
\* whatever happened in the round.
C5_DiscoveryRoundEndsNormal ==
    (/\ pc = "loop"
     /\ round_log # <<>>
     /\ Len(round_log) = iteration
     /\ round_log[Len(round_log)].discovery_mode)
        => ~discovery_mode

\* C9: no exception raised during a round leaves the controller: after the
\* engine ran, the workflow is inside the round or back at the head of the loop.
C9_RoundExceptionsCaught == pc # "aborted"

\* the workflow returned before the loop: validation or initialisation failed
InitFailed == pc = "returned" /\ ~success /\ engine_runs = 0

\* C10: once initialisation succeeded the workflow ends only by printing the
\* final summary, after exactly max_iter rounds with one engine run each.
C10_ExactlyMaxIterRounds ==
    /\ engine_runs = Len(round_log)
    /\ engine_runs <= max_iter
    /\ (pc \in {"returned", "aborted"} /\ ~InitFailed)
          => (success /\ iteration = max_iter /\ engine_runs = max_iter)

----------------------------------------------------------------------------
(* Properties of the order and number of executed options (SpecExec) *)

\* the tier of a priority in the order critical < high < medium < low
Tier(p) ==
    CASE p = "critical" -> 1 [] p = "high" -> 2 [] p = "medium" -> 3 [] OTHER -> 4

\* the position in the plan of the option with this option_id
PlanIndex(id) == CHOOSE i \in 1..Len(plan.options) : plan.options[i].option_id = id

\* the option_ids of the options executed so far, in execution order
ExecutedIds == [i \in 1..Len(action_records) |-> action_records[i].step_id]

\* option a of the plan is due before option b
DueBefore(a, b) ==
    \/ Tier(plan.options[a].priority) < Tier(plan.options[b].priority)
    \/ /\ Tier(plan.options[a].priority) = Tier(plan.options[b].priority)
       /\ a < b

\* C11: options are executed in the order critical, high, medium, low, and
\* options of one priority in the order of the plan; the plan with priorities
\* [low, critical, medium, high] runs as [critical, high, medium, low].
C11_PriorityOrder ==
    /\ \A i, j \in 1..Len(action_records) :
          i < j => DueBefore(PlanIndex(ExecutedIds[i]), PlanIndex(ExecutedIds[j]))
    /\ \A i, j \in 1..Len(sorted_options) :
          i < j => DueBefore(PlanIndex(sorted_options[i].option_id),
                             PlanIndex(sorted_options[j].option_id))
    /\ (/\ pc = "exec_done"
        /\ max_options = 0
        /\ [i \in 1..Len(plan.options) |-> plan.options[i].priority]
              = <<"low", "critical", "medium", "high">>
        /\ Len(action_records) = 4)
          => [i \in 1..4 |-> plan.options[PlanIndex(ExecutedIds[i])].priority]
                = <<"critical", "high", "medium", "low">>

\* the four options of [low, critical, medium, high] were all executed
C11_Witness ==
    /\ pc = "exec_done"
    /\ max_options = 0
    /\ ExecutedIds = <<"2", "4", "3", "1">>

\* the positions of the plan's options in priority order, ties in plan order
ExpectedOrder ==
    CHOOSE order \in [1..Len(plan.options) -> 1..Len(plan.options)] :
        \A i, j \in 1..Len(plan.options) : i < j => DueBefore(order[i], order[j])

\* how many options a cap of k lets through out of n
Allowed(n, k) == IF k > 0 /\ k < n THEN k ELSE n

----------------------------------------------------------------------------
(* Properties of the execution of one option (SpecExec) *)

\* the number of sub-calls of executed option i that succeeded
Succeeded(i) ==
    Cardinality({k \in 1..Len(resolved[i].statuses) : resolved[i].statuses[k] = "success"})

\* the status the aggregation rule gives option i
StatusRuleHolds(i) ==
    LET Rule(n, ok, status) ==
            /\ status \in {"success", "partial", "failed", "skipped"}
            /\ status = "skipped" <=> resolved[i].action = "skip"
            /\ (resolved[i].action # "skip" /\ n > 0) =>
                  /\ status = "success" <=> ok = n
                  /\ status = "partial" <=> (0 < ok /\ ok < n)
                  /\ status = "failed"  <=> ok = 0
    IN Rule(Len(resolved[i].tool_calls), Succeeded(i), resolved[i].status)

C14_OneRecordPerOption ==
    /\ Len(action_records) = Len(resolved)
    /\ \A i \in 1..Len(action_records) :
          /\ action_records[i].step_id = sorted_options[i].option_id
          /\ resolved[i].tool_calls # <<>> =>
                /\ action_records[i].tool = resolved[i].tool_calls[1].tool
                /\ action_records[i].input = resolved[i].tool_calls[1].params

\* sub-call k of executed option i failed at the level of the tool: the tool
\* is unknown, the call raised (a parameter is missing), or the tool returned
\* failed
ToolLevelFailure(i, k) == resolved[i].statuses[k] \in {"unknown_tool", "error", "failed"}

\* C15: a tool-level failure is one failed sub-call; the remaining calls of
\* the option are still processed, the option is recorded, and execute_plan
\* goes on to the remaining options and returns.
C15_FailuresDoNotAbort ==
    /\ pc # "exec_raised"
    /\ \A i \in 1..Len(resolved) :
          /\ Len(resolved[i].statuses) = Len(resolved[i].tool_calls)
          /\ (\E k \in 1..Len(resolved[i].statuses) : ToolLevelFailure(i, k)) =>
                /\ i <= Len(action_records)
                /\ action_records[i].status \in {"partial", "failed"}
                /\ Succeeded(i) < Len(resolved[i].tool_calls)
    /\ pc = "exec_done" => Len(resolved) = Len(sorted_options)

\* the registry after the first k sub-calls of entry e of the log, when the
\* calls are invoked one after the other in the resolver's order; a blocked
\* call, a call of an unknown tool and a call that cannot be bound to the
\* tool's parameters never reach the registry
RECURSIVE AfterCalls(_, _, _, _)
AfterCalls(e, k, cfg, file) ==
    LET Invoke(prev) ==
            IF \/ e.statuses[k] = "blocked"
               \/ e.tool_calls[k].tool \notin list_tools
               \/ ~params_match(e.tool_calls[k])
            THEN prev
            ELSE get_tool(e.tool_calls[k].tool, prev.config, prev.file,
                          e.tool_calls[k].params, e.io)
    IN IF k = 0 THEN [config |-> cfg, file |-> file]
       ELSE Invoke(AfterCalls(e, k - 1, cfg, file))

\* what C16 asks of the step that executed the option logged as entry e
InvokedInOrder(e) ==
    LET Same(after) == config' = after.config /\ config_file' = after.file
    IN /\ Len(e.statuses) = Len(e.tool_calls)
       /\ Same(AfterCalls(e, Len(e.tool_calls), config, config_file))
       /\ (\E k \in 1..Len(e.statuses) : e.statuses[k] = "blocked") =>
             /\ e.status \in {"partial", "failed"}
             /\ Cardinality({k \in 1..Len(e.statuses) : e.statuses[k] = "success"})
                   < Len(e.tool_calls)

\* C16: the tool calls of an option are invoked in the resolver's order; a
\* blocked placeholder call does not reach the registry, counts as a failed
\* sub-call, and the calls after it are still invoked.
C16_CallsInOrder ==
    [][Len(resolved') = Len(resolved) + 1 => InvokedInOrder(resolved'[Len(resolved')])]_vars

\* placeholder, blocked placeholder, then a value for the first variable:
\* the value was written last and the blocked variable was never added
C16_Witness ==
    /\ Len(resolved) = 1
    /\ resolved[1].statuses = <<"success", "blocked", "success">>
    /\ "env" \in DOMAIN config.d
    /\ config.d["env"].d["sxid"] = Str("v1")
    /\ "lang" \notin DOMAIN config.d["env"].d

----------------------------------------------------------------------------
(* Properties of the planner's context (SpecContext) *)

----------------------------------------------------------------------------
(* Properties of Discovery rounds (Spec) *)

\* the two solutions a Discovery(v) plan may carry
DiscoverySolutions(v) ==
    CASE v = "sxid" -> {"set_value env.sxid", "remove_variable env.sxid"}
      [] v = "lang" -> {"set_value env.lang", "remove_variable env.lang"}
      [] v = "igloo_init" -> {"set_value env.igloo_init", "remove_variable env.igloo_init"}
      [] OTHER -> {}

\* C18: in a round that runs in Discovery(v) the plan handed to the engineer
\* has exactly one option, which sets the value of env.v or removes env.v,
\* and at most one option is executed in the round.
C18_DiscoveryPlanSingleOption ==
    (discovery_mode /\ pc \in {"engineer", "exec_loop", "exec_done", "exec_raised"}) =>
        /\ Len(plan.options) = 1
        /\ plan.options[1].solution \in DiscoverySolutions(discovery_variable)
        /\ Len(resolved) <= 1

----------------------------------------------------------------------------
(* Properties of the registry's operations (SpecTools) *)

\* the keys of a top-level section of the document ({} when there is none)
KeysOf(cfg, section) ==
    IF section \in DOMAIN cfg.d /\ IsDict(cfg.d[section])
    THEN DOMAIN cfg.d[section].d ELSE {}

\* the call fails one of the parameter or precondition checks on document cfg
Rejected(call, cfg) ==
    \/ /\ call.tool \in {PlaceholderTool, "set_environment_variable_value",
                          "remove_environment_variable"}
       /\ call.params["name"] = "igloo_init"
    \/ /\ call.tool = "remove_environment_variable"
       /\ call.params["name"] \notin KeysOf(cfg, "env")
    \/ /\ call.tool = "add_pseudofile"
       /\ \/ call.params["filepath"] \notin UnderSysDevProc
          \/ call.params["filepath"] \in KeysOf(cfg, "pseudofiles")
    \/ /\ call.tool = "set_file_read_behavior"
       /\ \/ call.params["model"] \notin {"return_zero", "const_buf"}
          \/ call.params["filepath"] \notin KeysOf(cfg, "pseudofiles")
    \/ /\ call.tool = "remove_pseudofile"
       /\ call.params["filepath"] \notin KeysOf(cfg, "pseudofiles")

\* the step called a tool
ToolCalled == Len(resolved') = Len(resolved) + 1

\* C19: a call that fails a parameter or precondition check (igloo_init,
\* variable absent on removal, path outside /sys, /dev and /proc, entry
\* already there, unknown read model, device entry missing) returns failed
\* and leaves the document in memory and the file as they were.
C19_RejectedLeavesUnchanged ==
    [][(ToolCalled /\ Rejected(resolved'[Len(resolved')].call, config)) =>
          /\ resolved'[Len(resolved')].status = "failed"
          /\ config' = config
          /\ config_file' = config_file]_vars

\* add_pseudofile succeeded and was called again with the same filepath
C19_Witness ==
    /\ pc = "registry"
    /\ Len(resolved) = 2
    /\ resolved[1].call.tool = "add_pseudofile"
    /\ resolved[1].status = "success"
    /\ resolved[2].call.tool = "add_pseudofile"
    /\ resolved[2].call.params["filepath"] = resolved[1].call.params["filepath"]
    /\ resolved[2].status = "failed"
    /\ config = config_file
    /\ KeysOf(config, "pseudofiles") = {"/dev/mtd0"}
    /\ config.d["pseudofiles"].d["/dev/mtd0"] = Dict([x \in {"name"} |-> Str("bootloader")])

----------------------------------------------------------------------------
(* Properties of add_pseudofile executed as an option (SpecExec) *)

\* the entry add_pseudofile is to store for a path and a name
ExpectedEntry(params) ==
    IF params["filepath"] = "/dev/mtd0" /\ "name" \in DOMAIN params /\ params["name"] # ""
    THEN Dict([x \in {"name"} |-> Str(params["name"])])
    ELSE EmptyDict

\* document cfg with exactly pseudofiles[filepath] = entry added
WithEntry(cfg, filepath, entry) ==
    Dict([s \in DOMAIN cfg.d \cup {"pseudofiles"} |->
            IF s # "pseudofiles" THEN cfg.d[s]
            ELSE Dict([f \in KeysOf(cfg, "pseudofiles") \cup {filepath} |->
                         IF f = filepath THEN entry ELSE cfg.d[s].d[f]])])

\* the option logged as e is one add_pseudofile call, with or without a name,
\* for a path under /sys/, /dev/ or /proc/ that the document does not hold,
\* and the configuration file can be written
AddsNewPseudofile(e) ==
    /\ e.action = "execute"
    /\ Len(e.tool_calls) = 1
    /\ e.tool_calls[1].tool = "add_pseudofile"
    /\ e.tool_calls[1].form = "ok"
    /\ DOMAIN e.tool_calls[1].params \in {{"filepath", "name", "reason"}, {"filepath", "reason"}}
    /\ e.tool_calls[1].params["filepath"] \in {"/dev/mtd0", "/dev/gpio"}
    /\ e.tool_calls[1].params["filepath"] \notin KeysOf(config, "pseudofiles")
    /\ e.io = "ok"

\* C20: add_pseudofile for a path under /sys/, /dev/ or /proc/ that is not
\* yet present succeeds and adds exactly pseudofiles[filepath], {name: name}
\* for an MTD path with a name and an empty map otherwise; the option is
\* recorded with status success.
C20_AddPseudofile ==
    [][(Len(resolved') = Len(resolved) + 1 /\ AddsNewPseudofile(resolved'[Len(resolved')])) =>
          /\ resolved'[Len(resolved')].statuses = <<"success">>
          /\ config' = WithEntry(config,
                                 resolved'[Len(resolved')].tool_calls[1].params["filepath"],
                                 ExpectedEntry(resolved'[Len(resolved')].tool_calls[1].params))
          /\ config_file' = config'
          /\ Len(action_records') = Len(action_records) + 1
          /\ action_records'[Len(action_records')].status = "success"
          /\ action_records'[Len(action_records')].tool = "add_pseudofile"]_vars

----------------------------------------------------------------------------
(* Properties of the two tools that write env.<name> (SpecTools) *)

\* the value a successful call of one of the two tools is to leave in env.<name>
WrittenValue(call) ==
    IF call.tool = PlaceholderTool THEN Str(placeholder_value)
    ELSE Str(call.params["value"])

\* C21: add_environment_variable_placeholder and set_environment_variable_value
\* return failed for the name igloo_init; for any other name a call that
\* returns success leaves env.<name> equal to the sentinel, respectively to
\* the given value.
C21_ReservedNameAndWrittenValue ==
    [][(ToolCalled /\ resolved'[Len(resolved')].call.tool
                         \in {PlaceholderTool, "set_environment_variable_value"}) =>
          IF resolved'[Len(resolved')].call.params["name"] = "igloo_init"
          THEN resolved'[Len(resolved')].status = "failed"
          ELSE resolved'[Len(resolved')].status = "success" =>
                  _get_nested_value(config',
                                    EnvPath(resolved'[Len(resolved')].call.params["name"]))
                     = WrittenValue(resolved'[Len(resolved')].call)]_vars

\* a placeholder was added for sxid and then replaced by the value v1
C21_Witness ==
    /\ pc = "registry"
    /\ Len(resolved) = 2
    /\ resolved[1].call = Placeholder("sxid") /\ resolved[1].status = "success"
    /\ resolved[2].call = SetValue("sxid", "v1") /\ resolved[2].status = "success"
    /\ _get_nested_value(config, EnvPath("sxid")) = Str("v1")

----------------------------------------------------------------------------
(* Properties of persistence (SpecTools) *)

\* the seven tools that work on the document
DocumentTools == list_tools \ {"grep_strace_output", "replace_script_exit0"}

\* the document the call leaves in memory when nothing goes wrong
Mutated(call, cfg, file) == get_tool(call.tool, cfg, file, call.params, "ok")

\* the call passes its checks and changes the document, and its write fails
WriteFails(e, cfg, file) ==
    /\ e.call.tool \in DocumentTools
    /\ e.io \in {"open_failed", "dump_failed"}
    /\ Mutated(e.call, cfg, file).status = "success"
    /\ Mutated(e.call, cfg, file).config # cfg

\* C22: when a tool has changed the document in memory and writing the file
\* fails, the tool returns failed, the document in memory keeps the change
\* and the file keeps its previous content.
C22_NoRollback ==
    [][(ToolCalled /\ WriteFails(resolved'[Len(resolved')], config, config_file)) =>
          /\ resolved'[Len(resolved')].status = "failed"
          /\ config' = Mutated(resolved'[Len(resolved')].call, config, config_file).config
          /\ config_file' = config_file]_vars

\* C23: right after a tool that works on the document returns success, the
\* file holds the document that is in memory.
C23_PersistedAfterSuccess ==
    [][(ToolCalled /\ resolved'[Len(resolved')].call.tool \in DocumentTools
                   /\ resolved'[Len(resolved')].status = "success") =>
          config_file' = config']_vars

\* a write failed and left the file behind the document; the next call
\* changed the document again and succeeded
C23_Witness ==
    /\ pc = "registry"
    /\ Len(resolved) = 2
    /\ resolved[1].call = Placeholder("sxid")
    /\ resolved[1].io = "open_failed" /\ resolved[1].status = "failed"
    /\ resolved[2].call = AddPseudofile("/dev/gpio", "")
    /\ resolved[2].status = "success"
    /\ _get_nested_value(config, EnvPath("sxid")) = Str(placeholder_value)
    /\ config_file = config

----------------------------------------------------------------------------
(* Properties of the nested-path helpers and of the diff (SpecDocument) *)

\* the step made a call that the log records as op
Logged(op) ==
    /\ Len(resolved') = Len(resolved) + 1
    /\ resolved'[Len(resolved')].op = op

\* C24: for every dotted path and value v, _set_nested_value(path, v)
\* followed by _get_nested_value(path) returns v.
C24_SetGetRoundTrip ==
    [][Logged("set") =>
          _get_nested_value(config', split(resolved'[Len(resolved')].path))
             = resolved'[Len(resolved')].value]_vars

\* the lines of the document before and after that differ
OldLines == yaml_lines(config_file, <<>>) \ yaml_lines(config, <<>>)

NewLines == yaml_lines(config, <<>>) \ yaml_lines(config_file, <<>>)

\* C25: get_config_diff compares with the document the registry was built
\* on; it is empty when nothing changed since and otherwise reports every
\* changed key with its path, old value and new value, whatever the
\* starting document, an empty or missing file included.
C25_DiffAgainstBaseline ==
    [][Logged("diff") =>
          /\ resolved'[Len(resolved')].result.compared
          /\ resolved'[Len(resolved')].result.removed = OldLines
          /\ resolved'[Len(resolved')].result.added = NewLines]_vars

----------------------------------------------------------------------------
(* Properties of the fallback plan (SpecPlan) *)

\* plan() returned although the reply of its last attempt did not parse
AllAttemptsFailed ==
    /\ plan_outcome = "returned"
    /\ llm_calls > 0
    /\ _parse_plan(response).kind = "caught"

\* C26: when every attempt failed, the returned plan has exactly one option,
\* with priority critical and action manual_review, and the option carries
\* the error of the last attempt and a truncated copy of the last raw
\* response.
C26_FallbackPlan ==
    AllAttemptsFailed =>
        /\ Len(plan.options) = 1
        /\ plan.options[1].priority = "critical"
        /\ plan.options[1].problem = last_error
        /\ "action" \in DOMAIN plan.options[1]
        /\ "raw_response" \in DOMAIN plan.options[1]

----------------------------------------------------------------------------
(* Properties of the draining of the engine's output (SpecEngine) *)

\* C27: while the child runs, what it printed is read and echoed as it
\* comes: a line that was read can be echoed before the child exits, a full
\* pipe can always be read, so the child never stays blocked on it, and the
\* caller gets its result only after the child has exited.
C27_OutputDrainedWhileRunning ==
    /\ (proc.child = "running" /\ Len(proc.lines) < Len(proc.stdout))
          => ENABLED EchoLine
    /\ (proc.child = "running" /\ Len(proc.pipe) = PipeCapacity)
          => ENABLED CommunicateRead
    /\ proc.parent = "returned" => proc.child # "running"

----------------------------------------------------------------------------
(* Properties of the transitions between Normal and Discovery (Spec) *)

\* C28: when the state goes from Discovery(v) back to Normal, a discovered
\* value was applied to env.v or env.v was removed: the configuration the
\* following round starts from does not hold the sentinel in env.v.
C28_ExitMeansResolved ==
    [][(discovery_mode /\ ~discovery_mode') =>
          /\ _get_nested_value(config', EnvPath(discovery_variable)) # Str(placeholder_value)
          /\ _get_nested_value(config_file', EnvPath(discovery_variable))
                # Str(placeholder_value)]_vars

\* the variables for which a placeholder call of the round returned success,
\* at any position of an option's tool calls
PlaceholdersAdded ==
    {resolved[i].tool_calls[k].params["name"] :
        <<i, k>> \in {<<i, k>> \in (1..Len(resolved)) \X (1..4) :
                         /\ k <= Len(resolved[i].statuses)
                         /\ resolved[i].tool_calls[k].tool = PlaceholderTool
                         /\ resolved[i].statuses[k] = "success"}}

\* C29: a round that ran in Normal and in which the engineer executed
\* add_environment_variable_placeholder for v with success, at any position
\* of an option's tool calls, is followed by Discovery(v).
C29_EntryFollowsPlaceholder ==
    [][(RoundEnds /\ pc = "exec_done" /\ ~discovery_mode /\ PlaceholdersAdded # {}) =>
          /\ discovery_mode'
          /\ discovery_variable' \in PlaceholdersAdded]_vars

\* C30: in Discovery(v) every chat() call of plan(), the first attempt and
\* each retry, is sent the discovery-mode prompt for v.
C30_DiscoveryPromptOnEveryCall ==
    (discovery_mode /\ pc = "plan") =>
        \A i \in 1..Len(prompts) :
           prompts[i] = <<"DISCOVERY_MODE_PROMPT", discovery_variable>>

----------------------------------------------------------------------------
\* a response the resolver may accept: a JSON object whose action is skip with
\* a reason, or execute with a non-empty list of well-formed tool calls
ValidReply(r) ==
    /\ r.kind = "object"
    /\ \/ r.action = "skip" /\ r.skip_reason # ""
       \/ /\ r.action = "execute"
          /\ r.tool_calls # <<>>
          /\ \A k \in 1..Len(r.tool_calls) :
                r.tool_calls[k].form \notin {"not_dict", "missing_fields"}

ValidAttempts(script) ==
    {a \in 1..EngineerMaxRetries : ValidReply(script[a])}

FirstValid(script) ==
    CHOOSE a \in ValidAttempts(script) : \A b \in ValidAttempts(script) : a <= b

\* C31: for every option _call_llm_for_implementation makes at most
\* max_retries LLM calls; it returns at the first valid response, having made
\* exactly that many calls, and what it returns is that response; when all
\* max_retries responses are bad (LLM exception, invalid JSON, invalid action,
\* empty tool-call list, malformed tool call) it returns no tool calls and the
\* option's record has status failed.
C31_BoundedResolver ==
    \A i \in 1..Len(resolved) :
       /\ resolved[i].calls \in 1..EngineerMaxRetries
       /\ ValidAttempts(resolved[i].script) # {} =>
             /\ resolved[i].calls = FirstValid(resolved[i].script)
             /\ resolved[i].action = resolved[i].script[resolved[i].calls].action
             /\ resolved[i].action = "execute" =>
                   resolved[i].tool_calls
                      = resolved[i].script[resolved[i].calls].tool_calls
       /\ ValidAttempts(resolved[i].script) = {} =>
             /\ resolved[i].calls = EngineerMaxRetries
             /\ resolved[i].action = "execute"
             /\ resolved[i].tool_calls = <<>>
             /\ resolved[i].status = "failed"
             /\ i <= Len(action_records) => action_records[i].status = "failed"

\* an option whose resolver had two bad responses, one of them an empty
\* tool-call list, and an option whose second response was the valid one
C31_Witness ==
    /\ pc = "exec_done"
    /\ \E i \in 1..Len(resolved) :
          /\ resolved[i].script = <<Execute(<<>>), Unusable("not_object")>>
          /\ resolved[i].calls = EngineerMaxRetries
          /\ action_records[i].status = "failed"
    /\ \E i \in 1..Len(resolved) :
          /\ resolved[i].script[1] = Unusable("invalid_json")
          /\ resolved[i].calls = 2
          /\ resolved[i].tool_calls # <<>>

----------------------------------------------------------------------------
SkippedOption(i) == resolved[i].status = "skipped"

\* C32: an option is recorded as skipped only when the response the resolver
\* accepted has action skip and a non-empty skip_reason; a skip without a
\* reason is rejected and uses up one attempt; a skipped option calls no
\* registry tool and leaves the document and its file as they were.
C32_SkipNeedsReason ==
    /\ [](\A i \in 1..Len(resolved) :
            /\ SkippedOption(i) =>
                  /\ resolved[i].script[resolved[i].calls].kind = "object"
                  /\ resolved[i].script[resolved[i].calls].action = "skip"
                  /\ resolved[i].script[resolved[i].calls].skip_reason # ""
                  /\ resolved[i].statuses = <<>>
            /\ (resolved[i].script[1].kind = "object"
                   /\ resolved[i].script[1].action = "skip"
                   /\ resolved[i].script[1].skip_reason = "") =>
                  resolved[i].calls > 1)
    /\ [][(ToolCalled /\ resolved'[Len(resolved')].status = "skipped")
             => (config' = config /\ config_file' = config_file)]_vars

\* one option skipped with a reason after another changed the document, and
\* one whose skip without a reason was rejected
C32_Witness ==
    /\ pc = "exec_done"
    /\ config # registry_init(config_file).original_config
    /\ original_config # config
    /\ \E i \in 1..Len(resolved) :
          SkippedOption(i) /\ action_records[i].status = "skipped"
    /\ \E i \in 1..Len(resolved) :
          resolved[i].script[1] = Skip("") /\ resolved[i].status = "failed"

----------------------------------------------------------------------------
\* the document d in a fenced code block: with or without the json tag, with
\* or without a line break after the opening fence
FencedRenderings(d) ==
    {<<Fence, Tag, NL, d, NL, Fence>>, <<Fence, NL, d, NL, Fence>>,
     <<Fence, Tag, d, Fence>>, <<Fence, d, Fence>>}

\* C33: a reply that is a fenced code block (with or without a json tag, with
\* or without a line break after the opening fence) around a valid plan
\* object is returned as the Plan that the bare object gives, in the same
\* attempt; an attempt fails with a JSON parse error only when neither the
\* reply nor the content of its fenced block is a JSON document.
C33_FencedJsonParsed ==
    /\ \A d \in DOMAIN Documents :
          (/\ plan_outcome # "raised"
           /\ response \in FencedRenderings(d)
           /\ _parse_plan(<<d>>).kind = "plan")
          => /\ plan_outcome = "returned"
             /\ plan = _parse_plan(<<d>>).plan
             /\ attempt = llm_calls - 1
    /\ (plan_outcome # "raised" /\ last_error = "JSONDecodeError"
           /\ ~(plan_outcome = "returned" /\ ~IsFallback(plan)))
          => \A d \in DOMAIN Documents :
                response \notin FencedRenderings(d) \cup {<<d>>}

----------------------------------------------------------------------------
ReservedVariable(cfg) == get_nested(cfg, EnvPath("igloo_init"))

\* C34: no operation obtainable from get_tool adds, changes or removes
\* env.igloo_init, in the document or in its file.
C34_ReservedVariableKept ==
    [][/\ ReservedVariable(config') = ReservedVariable(config)
       /\ ReservedVariable(config_file') = ReservedVariable(config_file)]_vars

----------------------------------------------------------------------------
\* C35: in a round whose plan is the fallback (manual-review) plan the
\* fallback option is not resolved into registry tool calls, and the document
\* and its file stay as they were.
C35_FallbackRoundMutatesNothing ==
    [][(ToolCalled /\ IsFallback(plan))
         => /\ resolved'[Len(resolved')].tool_calls = <<>>
            /\ config' = config
            /\ config_file' = config_file]_vars

----------------------------------------------------------------------------
\* the top-level sections of a document other than env and pseudofiles
OtherSections(cfg) ==
    IF IsDict(cfg)
    THEN [x \in DOMAIN cfg.d \ {"env", "pseudofiles"} |-> cfg.d[x]]
    ELSE <<cfg>>

EscapeHatchCalled ==
    /\ ToolCalled
    /\ resolved'[Len(resolved')].call.tool
          \in {"grep_strace_output", "replace_script_exit0"}

\* C36: every registry operation leaves the top-level sections other than env
\* and pseudofiles as they were, in the document in memory and in its file;
\* grep_strace_output and replace_script_exit0 leave the whole document as it
\* was, in memory and in the file.
C36_OtherSectionsUntouched ==
    [][/\ ToolCalled => /\ OtherSections(config') = OtherSections(config)
                        /\ OtherSections(config_file') = OtherSections(config_file)
       /\ EscapeHatchCalled => /\ config' = config
                               /\ config_file' = config_file]_vars

----------------------------------------------------------------------------
DiscoveryStateChanges ==
    discovery_mode' # discovery_mode \/ discovery_variable' # discovery_variable

----------------------------------------------------------------------------
\* C38: the counters of execute_plan add up to the number of ActionRecords;
\* completed counts exactly the records with status success, skipped those
\* with status skipped, and failed all the others, partial included; when
\* execute_plan has returned, that number is the number of executed options:
\* min(n, cap), or n when the cap is 0.
C38_CountersAddUp ==
    pc \in {"exec_loop", "exec_done", "exec_raised"} =>
       /\ results.completed + results.failed + results.skipped = Len(action_records)
       /\ results.completed = Cardinality(RecordsWith("success"))
       /\ results.skipped = Cardinality(RecordsWith("skipped"))
       /\ results.failed = Len(action_records) - Cardinality(RecordsWith("success") \cup RecordsWith("skipped"))
       /\ pc = "exec_done" => Len(action_records) = Allowed(Len(plan.options), max_options)

\* a plan of four options cut to two, one of them partial and counted failed
C38_Witness ==
    /\ pc = "exec_done"
    /\ Len(plan.options) = 4
    /\ max_options = 2
    /\ Cardinality(RecordsWith("partial")) = 1
    /\ Cardinality(RecordsWith("success")) = 1
    /\ results = [completed |-> 1, failed |-> 1, skipped |-> 0]

----------------------------------------------------------------------------
\* C39: rehost_firmware returns success = True exactly when it reached the
\* end of the round loop, which then ran max_iter rounds, however many of
\* them appended an error; when validation or initialisation failed it
\* returns success = False with no round executed and that failure as the
\* only error; success is False as long as the workflow has not returned.
C39_SuccessMeansLoopCompleted ==
    /\ pc # "returned" => ~success
    /\ (pc = "returned" /\ success)
          => /\ iteration = max_iter
             /\ engine_runs = max_iter
             /\ Len(errors) <= max_iter
    /\ (pc = "returned" /\ ~success)
          => /\ iteration = 0
             /\ engine_runs = 0
             /\ errors \in {<<"Input validation failed">>, <<"Penguin init failed">>}
    /\ (pc = "returned" /\ iteration = max_iter /\ engine_runs = max_iter
           /\ (max_iter = 0 => errors = <<>>))
          => success

\* every round of the run appended an error and the result is still success
C39_Witness ==
    /\ pc = "returned"
    /\ success
    /\ max_iter = 2
    /\ Len(errors) = 2
====
